---- MODULE Spec2Model ----
(***************************************************************************)
(* A model of the hf adaptor library (src/hf/adaptor.go): the bounded      *)
(* retry loop of BaseAdaptor.sendWithRetry, the framing of the chat        *)
(* payload by Adaptor.sendRequestWithHistory, the QnA call and the         *)
(* response extractors.                                                    *)
(*                                                                         *)
(* Text supplied by the caller (base instruction, message, history         *)
(* content) is a sequence of one-character strings, so that                *)
(* html.UnescapeString can be computed character by character.  Text that  *)
(* comes back from the server is an opaque string.  A JSON document is a   *)
(* tagged tree (JStr, JNum, JArr, JObj, ...); encoding/json is modelled as *)
(* the type-directed mapping between Go values and such trees.             *)
(***************************************************************************)
EXTENDS Integers, Sequences, FiniteSets, TLC

\* ------------------------------------------------------------------ bounds
\* maxretries given to the constructors ranges over -1 .. MaxRetriesBound
MaxRetriesBound == 3
\* the history given to a chat call has at most MaxHistory messages
MaxHistory == 2
\* the parameter list given to NewTool has at most MaxParams parameters
MaxParams == 3

\* ------------------------------------------------------------ Go helpers
\* A Go slice: nil, or a (possibly empty) sequence of elements.
NilSlice == [nil |-> TRUE, elems |-> <<>>]
Slice(s) == [nil |-> FALSE, elems |-> s]
SliceLen(sl) == Len(sl.elems)

\* Go's append(dst, src...) onto a non-nil destination.
AppendAll(dst, sl) == dst \o sl.elems

Min(a, b) == IF a < b THEN a ELSE b

\* ---------------------------------------------------------------- roles
ROLE_SYSTEM == "system"
ROLE_USER == "user"
ROLE_AGENT == "assistant"

\* ------------------------------------------------- html.UnescapeString
\* The characters of the modelled texts that are letters or digits.
Alnum == {"a", "b", "g", "h", "i", "l", "m", "p", "q", "t", "x"}

\* The part of the standard entity table the modelled texts can hit; the
\* table holds the common names both with and without the final semicolon.
EntityNames ==
    { <<"l","t",";">>, <<"l","t">>, <<"g","t",";">>, <<"g","t">>,
      <<"a","m","p",";">>, <<"a","m","p">> }

EntityChar(name) ==
    IF name[1] = "l" THEN "<" ELSE IF name[1] = "g" THEN ">" ELSE "&"

\* First index at or after i that is not a letter or digit.
RECURSIVE RunEnd(_, _)
RunEnd(s, i) ==
    IF i <= Len(s) /\ s[i] \in Alnum THEN RunEnd(s, i + 1) ELSE i

\* Longest j in 2..maxLen such that name[1..j] is an entity, or 0.
RECURSIVE PrefixEntity(_, _)
PrefixEntity(name, j) ==
    IF j <= 1 THEN 0
    ELSE IF SubSeq(name, 1, j) \in EntityNames THEN j
    ELSE PrefixEntity(name, j - 1)

\* The text from position p on, with entities replaced (one pass, left to
\* right; the replacement text is never rescanned).
RECURSIVE UnescapeFrom(_, _)
UnescapeFrom(s, p) ==
    IF p > Len(s) THEN <<>>
    ELSE IF s[p] # "&" THEN <<s[p]>> \o UnescapeFrom(s, p + 1)
    ELSE LET e    == RunEnd(s, p + 1)
             i    == IF e <= Len(s) /\ s[e] = ";" THEN e + 1 ELSE e
             name == SubSeq(s, p + 1, i - 1)
             j    == PrefixEntity(name, Min(Len(name) - 1, 6))
         IN  IF name # <<>> /\ name \in EntityNames
                 THEN <<EntityChar(name)>> \o UnescapeFrom(s, i)
             ELSE IF name # <<>> /\ j > 0
                 THEN <<EntityChar(name)>> \o UnescapeFrom(s, p + j + 1)
             ELSE SubSeq(s, p, i - 1) \o UnescapeFrom(s, i)

UnescapeString(s) == UnescapeFrom(s, 1)

\* ------------------------------------------------------------ JSON trees
JNull == [t |-> "null"]
JStr(s) == [t |-> "str", s |-> s]
JNum(n) == [t |-> "num", n |-> n]
JFrac(n) == [t |-> "frac", hundredths |-> n]
JBool(b) == [t |-> "bool", b |-> b]
JArr(a) == [t |-> "arr", a |-> a]
JObj(o) == [t |-> "obj", o |-> o]

HasKey(v, k) == v.t = "obj" /\ k \in DOMAIN v.o

\* An object field list built from (key, value, present) triples: the
\* fields whose present flag is FALSE (omitempty on an empty value) are
\* left out of the object.
ObjOf(triples) ==
    LET idx  == { n \in 1..Len(triples) : triples[n][3] }
        keys == { triples[n][1] : n \in idx }
    IN  JObj([ k \in keys |->
                 (triples[CHOOSE n \in idx : triples[n][1] = k])[2] ])

\* ------------------------------------------------------------ data model
\* A pointer: nil, or the address of a value.
NilPtr == [nil |-> TRUE]
PtrTo(v) == [nil |-> FALSE, v |-> v]

\* type FunctionCall struct { Id, Type string; Function struct {...} }
FunctionCall(id, type, description, name, arguments) ==
    [Id |-> id, Type |-> type,
     Function |-> [Description |-> description, Name |-> name,
                   Arguments |-> arguments]]

\* type Message struct { Role, Content string; FunctionCall *FunctionCall }
Message(role, content, call) ==
    [Role |-> role, Content |-> content, FunctionCall |-> call]

\* type ToolParameter struct { Name, Type, Description string; Required bool }
ToolParameter(name, type, description, required) ==
    [Name |-> name, Type |-> type, Description |-> description,
     Required |-> required]

\* Mutant: every parameter's name is appended, required or not.
RECURSIVE RequiredOf_All(_)
RequiredOf_All(params) ==
    IF params = <<>> THEN <<>>
    ELSE <<Head(params).Name>> \o RequiredOf_All(Tail(params))

\* The names of the parameters marked Required, in the order of params.
RECURSIVE RequiredOf(_)
RequiredOf(params) ==
    IF params = <<>> THEN <<>>
    ELSE (IF Head(params).Required THEN <<Head(params).Name>> ELSE <<>>)
         \o RequiredOf(Tail(params))

\* The properties map filled by the loop: a later parameter of the same
\* name overwrites an earlier one.
PropertiesOf(params) ==
    [ n \in { params[k].Name : k \in 1..Len(params) } |->
        LET last == CHOOSE k \in 1..Len(params) :
                        /\ params[k].Name = n
                        /\ \A k2 \in 1..Len(params) :
                               params[k2].Name = n => k2 <= k
        IN  [Type |-> params[last].Type,
             Description |-> params[last].Description] ]

NewTool(name, description, params) ==
    [Type |-> "function",
     Function |->
        [Name |-> name,
         Description |-> description,
         Parameters |->
            IF SliceLen(params) > 0
            THEN PtrTo([Type |-> "object",
                        Properties |-> PropertiesOf(params.elems),
                        Required |-> Slice(RequiredOf(params.elems)),
                        AdditionalProperties |-> FALSE])
            ELSE NilPtr]]

\* ------------------------------------------------- json.Encoder.Encode
SeqMap(Op(_), s) == [ k \in 1..Len(s) |-> Op(s[k]) ]

EncodeFunctionCall(fc) ==
    ObjOf(<< <<"id", JStr(fc.Id), TRUE>>,
             <<"type", JStr(fc.Type), TRUE>>,
             <<"function",
               ObjOf(<< <<"description", fc.Function.Description, TRUE>>,
                        <<"name", JStr(fc.Function.Name), TRUE>>,
                        <<"arguments", JStr(fc.Function.Arguments), TRUE>> >>),
               TRUE>> >>)

\* function_call has omitempty: a nil pointer leaves the field out.
EncodeMessage(m) ==
    ObjOf(<< <<"role", JStr(m.Role), TRUE>>,
             <<"content", JStr(m.Content), TRUE>>,
             <<"function_call",
               IF m.FunctionCall.nil THEN JNull
               ELSE EncodeFunctionCall(m.FunctionCall.v),
               ~m.FunctionCall.nil>> >>)

EncodeProperty(p) ==
    ObjOf(<< <<"type", JStr(p.Type), TRUE>>,
             <<"description", JStr(p.Description), p.Description # "">> >>)

EncodeParameters(ps) ==
    ObjOf(<< <<"type", JStr(ps.Type), TRUE>>,
             <<"properties",
               JObj([ n \in DOMAIN ps.Properties |->
                        EncodeProperty(ps.Properties[n]) ]), TRUE>>,
             <<"required", JArr(SeqMap(JStr, ps.Required.elems)),
               SliceLen(ps.Required) > 0>>,
             <<"additionalProperties", JBool(ps.AdditionalProperties), TRUE>> >>)

EncodeTool(tool) ==
    ObjOf(<< <<"type", JStr(tool.Type), TRUE>>,
             <<"function",
               ObjOf(<< <<"name", JStr(tool.Function.Name), TRUE>>,
                        <<"description", JStr(tool.Function.Description),
                          tool.Function.Description # "">>,
                        <<"parameters",
                          IF tool.Function.Parameters.nil THEN JNull
                          ELSE EncodeParameters(tool.Function.Parameters.v),
                          TRUE>> >>),
               TRUE>> >>)

\* Mutant: tools without omitempty semantics for the empty slice (the
\* field is left out for a nil slice only).
EncodeAIRequest_NoOmitEmpty(r) ==
    ObjOf(<< <<"model", JStr(r.Model), TRUE>>,
             <<"messages",
               IF r.Messages.nil THEN JNull
               ELSE JArr(SeqMap(EncodeMessage, r.Messages.elems)), TRUE>>,
             <<"tools", JArr(SeqMap(EncodeTool, r.Tools.elems)),
               ~r.Tools.nil>> >>)

\* type AIRequest: tools has omitempty, so a slice of length 0 (nil or
\* not) leaves the field out; messages is written even when nil.
EncodeAIRequest(r) ==
    ObjOf(<< <<"model", JStr(r.Model), TRUE>>,
             <<"messages",
               IF r.Messages.nil THEN JNull
               ELSE JArr(SeqMap(EncodeMessage, r.Messages.elems)), TRUE>>,
             <<"tools", JArr(SeqMap(EncodeTool, r.Tools.elems)),
               SliceLen(r.Tools) > 0>> >>)

\* type QnARequest: parameters has omitempty (a nil or empty map).
EncodeQnARequest(r) ==
    ObjOf(<< <<"inputs",
               ObjOf(<< <<"context", JStr(r.Inputs.Context), TRUE>>,
                        <<"question", JStr(r.Inputs.Question), TRUE>> >>),
               TRUE>>,
             <<"parameters", JObj(r.Parameters.m),
               DOMAIN r.Parameters.m # {}>> >>)

\* reqData is an `any`: the encoder follows its dynamic type.
Encode(reqData) ==
    IF reqData.type = "AIRequest" THEN EncodeAIRequest(reqData.v)
    ELSE EncodeQnARequest(reqData.v)

\* --------------------------------------------------- json.Decoder.Decode
\* Go types, as far as the decoder tells them apart.  A struct type maps
\* each JSON key of its tags to the Go field and that field's type.
TString == [k |-> "string"]
TInt == [k |-> "int"]
TFloat == [k |-> "float"]
TAny == [k |-> "any"]
TSlice(e) == [k |-> "slice", e |-> e]
TStruct(f) == [k |-> "struct", f |-> f]
Field(go, ty) == [go |-> go, ty |-> ty]

GoFields(T) == { T.f[key].go : key \in DOMAIN T.f }
KeyOf(T, g) == CHOOSE key \in DOMAIN T.f : T.f[key].go = g

RECURSIVE Zero(_)
Zero(T) ==
    CASE T.k = "string" -> ""
      [] T.k = "int"    -> 0
      [] T.k = "float"  -> 0
      [] T.k = "any"    -> JNull
      [] T.k = "slice"  -> NilSlice
      [] T.k = "struct" -> [ g \in GoFields(T) |-> Zero(T.f[KeyOf(T, g)].ty) ]

\* Decoding JSON tree v into a Go value of type T that holds old.  The
\* result is the value and whether a type error was met.  null sets a
\* slice or an interface to nil and leaves every other type alone; an
\* array (the empty one too) makes a non-nil slice; keys of an object
\* that the struct does not know are skipped, fields the object does
\* not name keep what they held.
RECURSIVE Decode(_, _, _)
Decode(T, v, old) ==
    CASE T.k = "any" -> [err |-> FALSE, v |-> v]
      [] T.k = "slice" ->
           IF v.t = "null" THEN [err |-> FALSE, v |-> NilSlice]
           ELSE IF v.t # "arr" THEN [err |-> TRUE, v |-> old]
           ELSE LET each == [ n \in 1..Len(v.a) |->
                                Decode(T.e, v.a[n], Zero(T.e)) ]
                IN  [err |-> \E n \in 1..Len(v.a) : each[n].err,
                     v   |-> Slice([ n \in 1..Len(v.a) |-> each[n].v ])]
      [] T.k = "struct" ->
           IF v.t = "null" THEN [err |-> FALSE, v |-> old]
           ELSE IF v.t # "obj" THEN [err |-> TRUE, v |-> old]
           ELSE LET known == DOMAIN T.f \cap DOMAIN v.o
                    each  == [ key \in known |->
                                 Decode(T.f[key].ty, v.o[key],
                                        old[T.f[key].go]) ]
                IN  [err |-> \E key \in known : each[key].err,
                     v   |-> [ g \in GoFields(T) |->
                                 IF KeyOf(T, g) \in known
                                 THEN each[KeyOf(T, g)].v ELSE old[g] ]]
      [] T.k = "string" ->
           IF v.t = "null" THEN [err |-> FALSE, v |-> old]
           ELSE IF v.t = "str" THEN [err |-> FALSE, v |-> v.s]
           ELSE [err |-> TRUE, v |-> old]
      [] T.k = "int" ->
           IF v.t = "null" THEN [err |-> FALSE, v |-> old]
           ELSE IF v.t = "num" THEN [err |-> FALSE, v |-> v.n]
           ELSE [err |-> TRUE, v |-> old]
      [] T.k = "float" ->
           IF v.t = "null" THEN [err |-> FALSE, v |-> old]
           ELSE IF v.t = "num" THEN [err |-> FALSE, v |-> 100 * v.n]
           ELSE IF v.t = "frac" THEN [err |-> FALSE, v |-> v.hundredths]
           ELSE [err |-> TRUE, v |-> old]

\* A response body as it arrives: its bytes (text), whether reading it
\* fails with an I/O error, and the JSON document the bytes spell, if
\* they spell one (json.ok).
Body(text, ioerr, ok, tree) ==
    [text |-> text, ioerr |-> ioerr, json |-> [ok |-> ok, v |-> tree]]

\* Mutant: a type error is swallowed and the value decoded so far is used.
DecodeBody_BestEffort(T, body, old) ==
    IF body.ioerr \/ ~body.json.ok THEN [err |-> TRUE, v |-> old]
    ELSE [err |-> FALSE, v |-> Decode(T, body.json.v, old).v]

\* dec.Decode(&x): a read error, bytes that are not JSON, or a type error.
DecodeBody(T, body, old) ==
    IF body.ioerr \/ ~body.json.ok THEN [err |-> TRUE, v |-> old]
    ELSE Decode(T, body.json.v, old)

\* --------------------------------------------------------------- errors
Err(kind, code, cause) == [kind |-> kind, code |-> code, cause |-> cause]
NoErr == Err("nil", 0, "")

\* ------------------------------------------------------ chat extractors
FunctionCallT ==
    TStruct([id |-> Field("Id", TString),
             type |-> Field("Type", TString),
             function |-> Field("Function",
                 TStruct([description |-> Field("Description", TAny),
                          name |-> Field("Name", TString),
                          arguments |-> Field("Arguments", TString)]))])

ChoiceT ==
    TStruct([index |-> Field("Index", TInt),
             message |-> Field("Message",
                 TStruct([role |-> Field("Role", TString),
                          content |-> Field("Content", TString),
                          tool_calls |-> Field("ToolCalls",
                                               TSlice(FunctionCallT))])),
             logprobs |-> Field("Logprobs", TAny),
             finish_reason |-> Field("FinishReason", TString)])

ResponseT ==
    TStruct([object |-> Field("Object", TString),
             id |-> Field("Id", TString),
             created |-> Field("Created", TInt),
             model |-> Field("Model", TString),
             system_fingerprint |-> Field("SystemFingerprint", TString),
             choices |-> Field("Choices", TSlice(ChoiceT)),
             usage |-> Field("Usage",
                 TStruct([prompt_tokens |-> Field("PromptTokens", TInt),
                          completion_tokens |-> Field("CompletionTokens", TInt),
                          total_tokens |-> Field("TotalTokens", TInt)]))])

\* What an extractor hands back, and how often it closed the reader.
Extracted(content, calls, err, closes) ==
    [content |-> content, calls |-> calls, err |-> err, closes |-> closes]

\* Mutant: only the first tool call is handed back (the single-call shape).
OpenAIJsonExtractor_FirstCallOnly(body) ==
    LET d    == DecodeBody(ResponseT, body, Zero(ResponseT))
        resp == d.v
    IN  IF d.err
            THEN Extracted("", NilSlice, Err("decode", 0, ""), 1)
        ELSE IF SliceLen(resp.Choices) > 0
            THEN IF SliceLen(resp.Choices.elems[1].Message.ToolCalls) > 0
                 THEN Extracted(resp.Choices.elems[1].Message.Content,
                                Slice(<<resp.Choices.elems[1].Message
                                            .ToolCalls.elems[1]>>),
                                NoErr, 1)
                 ELSE Extracted(resp.Choices.elems[1].Message.Content,
                                NilSlice, NoErr, 1)
        ELSE Extracted("", NilSlice, Err("nochoices", 0, ""), 1)

\* Mutant: the branch without a function call forgets the content.
OpenAIJsonExtractor_DropsContent(body) ==
    LET d    == DecodeBody(ResponseT, body, Zero(ResponseT))
        resp == d.v
    IN  IF d.err
            THEN Extracted("", NilSlice, Err("decode", 0, ""), 1)
        ELSE IF SliceLen(resp.Choices) > 0
            THEN IF ~resp.Choices.elems[1].Message.ToolCalls.nil
                 THEN Extracted(resp.Choices.elems[1].Message.Content,
                                resp.Choices.elems[1].Message.ToolCalls,
                                NoErr, 1)
                 ELSE Extracted("", NilSlice, NoErr, 1)
        ELSE Extracted("", NilSlice, Err("nochoices", 0, ""), 1)

\* Mutant: a response without choices is taken for an empty answer.
OpenAIJsonExtractor_EmptyChoicesOk(body) ==
    LET d    == DecodeBody(ResponseT, body, Zero(ResponseT))
        resp == d.v
    IN  IF d.err
            THEN Extracted("", NilSlice, Err("decode", 0, ""), 1)
        ELSE IF SliceLen(resp.Choices) > 0
            THEN IF ~resp.Choices.elems[1].Message.ToolCalls.nil
                 THEN Extracted(resp.Choices.elems[1].Message.Content,
                                resp.Choices.elems[1].Message.ToolCalls,
                                NoErr, 1)
                 ELSE Extracted(resp.Choices.elems[1].Message.Content,
                                NilSlice, NoErr, 1)
        ELSE Extracted("", NilSlice, NoErr, 1)

\* Mutant: the last choice is consulted instead of the first.
OpenAIJsonExtractor_LastChoice(body) ==
    LET d    == DecodeBody(ResponseT, body, Zero(ResponseT))
        resp == d.v
        last == SliceLen(resp.Choices)
    IN  IF d.err
            THEN Extracted("", NilSlice, Err("decode", 0, ""), 1)
        ELSE IF SliceLen(resp.Choices) > 0
            THEN IF ~resp.Choices.elems[last].Message.ToolCalls.nil
                 THEN Extracted(resp.Choices.elems[last].Message.Content,
                                resp.Choices.elems[last].Message.ToolCalls,
                                NoErr, 1)
                 ELSE Extracted(resp.Choices.elems[last].Message.Content,
                                NilSlice, NoErr, 1)
        ELSE Extracted("", NilSlice, Err("nochoices", 0, ""), 1)

OpenAIJsonExtractor(body) ==
    LET d    == DecodeBody(ResponseT, body, Zero(ResponseT))
        resp == d.v
    IN  IF d.err
            THEN Extracted("", NilSlice, Err("decode", 0, ""), 1)
        ELSE IF SliceLen(resp.Choices) > 0
            THEN IF ~resp.Choices.elems[1].Message.ToolCalls.nil
                 THEN Extracted(resp.Choices.elems[1].Message.Content,
                                resp.Choices.elems[1].Message.ToolCalls,
                                NoErr, 1)
                 ELSE Extracted(resp.Choices.elems[1].Message.Content,
                                NilSlice, NoErr, 1)
        ELSE Extracted("", NilSlice, Err("nochoices", 0, ""), 1)

\* DebugDecoder echoes what it reads and passes Read and Close through.
OpenAIJsonExtractorWithDebug(body) == OpenAIJsonExtractor(body)

\* Mutant: the passthrough insists on a JSON document.
RawExtracter_JsonOnly(body) ==
    IF body.ioerr THEN Extracted("", NilSlice, Err("read", 0, ""), 0)
    ELSE IF ~body.json.ok THEN Extracted("", NilSlice, Err("decode", 0, ""), 0)
    ELSE Extracted(body.text, NilSlice, NoErr, 0)

\* io.ReadAll, then the bytes as a string; the reader is left open.
RawExtracter(body) ==
    IF body.ioerr THEN Extracted("", NilSlice, Err("read", 0, ""), 0)
    ELSE Extracted(body.text, NilSlice, NoErr, 0)

\* --------------------------------------------------------- QnA extractor
QnAResponseT ==
    TStruct([answer |-> Field("Answer", TString),
             score |-> Field("Score", TFloat),
             start |-> Field("Start", TInt),
             end |-> Field("End", TInt)])

QnAExtracted(answers, err, closes) ==
    [answers |-> answers, err |-> err, closes |-> closes]

\* Mutant: only the first (best) answer is handed back.
QnAJsonResponseExtractor_BestOnly(body) ==
    LET d == DecodeBody(TSlice(QnAResponseT), body, Slice(<<>>))
    IN  IF d.err THEN QnAExtracted(NilSlice, Err("decode", 0, ""), 1)
        ELSE IF SliceLen(d.v) > 1
            THEN QnAExtracted(Slice(<<d.v.elems[1]>>), NoErr, 1)
        ELSE QnAExtracted(d.v, NoErr, 1)

\* Mutant: on a decode error the answers decoded so far are handed back.
QnAJsonResponseExtractor_KeepsPartial(body) ==
    LET d == DecodeBody(TSlice(QnAResponseT), body, Slice(<<>>))
    IN  IF d.err THEN QnAExtracted(d.v, Err("decode", 0, ""), 1)
        ELSE QnAExtracted(d.v, NoErr, 1)

QnAJsonResponseExtractor(body) ==
    LET d == DecodeBody(TSlice(QnAResponseT), body, Slice(<<>>))
    IN  IF d.err THEN QnAExtracted(NilSlice, Err("decode", 0, ""), 1)
        ELSE QnAExtracted(d.v, NoErr, 1)

QnAJsonResponseExtractorWithDebug(body) == QnAJsonResponseExtractor(body)

\* An extractor written by the caller: it hands back a fixed answer and
\* neither reads nor closes the reader it is given.
dummyExtractor(body) ==
    QnAExtracted(Slice(<< [Answer |-> "dummy", Score |-> 10, Start |-> 1,
                           End |-> 2] >>),
                 NoErr, 0)

\* ------------------------------------------------------- modelled inputs
\* Endpoint URLs: one http.NewRequest accepts and one it cannot parse.
ValidURL == "https://api.example/v1/chat"
InvalidURL == "://no-scheme"
ApiKeys == {"test-key"}
Models == {"tgi"}

BaseInstructs == { <<"h","i">>, <<"a","&","g","t","b","&">> }
MessageTexts == { <<"x">>, <<"&","a","m","p",";","l","t",";">> }

WeatherCall ==
    FunctionCall("call_1", "function", JNull, "get_user_weather",
                 "{\"location\": \"London\"}")

\* The conversation the caller keeps: user turns with escaped text and
\* assistant turns that carry a function call, alternating.
HistoryMsg(k) ==
    IF k % 2 = 1 THEN Message(ROLE_USER, <<"&","l","t",";">>, NilPtr)
    ELSE Message(ROLE_AGENT, <<>>, PtrTo(WeatherCall))

\* A nil history, and the first 0 .. MaxHistory turns of the conversation.
Histories ==
    {NilSlice} \cup
    { Slice([ k \in 1..n |-> HistoryMsg(k) ]) : n \in 0..MaxHistory }

WeatherTool ==
    NewTool("get_current_weather", "Get the current weather",
            Slice(<< ToolParameter("location", "string", "The city", TRUE),
                     ToolParameter("unit", "string", "", FALSE) >>))

ToolSets == { NilSlice, Slice(<<>>), Slice(<<WeatherTool>>) }

\* What NewTool may be given: parameters of two names, described or not,
\* required or not, in lists that may repeat a name; no list at all.
ToolNames == {"get_current_weather"}
ToolDescriptions == {"Get the current weather"}
ToolParameters ==
    { ToolParameter(n, "string", d, r) :
        n \in {"location", "unit"}, d \in {"", "The city"}, r \in BOOLEAN }
ParamLists ==
    {NilSlice} \cup
    { Slice(l) : l \in UNION { [1..n -> ToolParameters] : n \in 0..MaxParams } }

Contexts == {"My name is Clara and I live in Berkeley."}
Questions == {"What is my name?"}
NilMap == [nil |-> TRUE, m |-> <<>>]
ParamMaps ==
    { NilMap, [nil |-> FALSE, m |-> <<>>],
      [nil |-> FALSE, m |-> [max_tokens |-> JNum(100)]] }

ChatExtractors == {"nil", "OpenAIJsonExtractor", "RawExtracter"}
QnAExtractors ==
    {"nil", "QnAJsonResponseExtractor", "QnAJsonResponseExtractorWithDebug"}
\* Extractors that are the caller's own functions.
ClientExtractors == {"dummyExtractor"}

\* ----------------------------------------------- what the server may send
ToolCallTree(id, name, arguments) ==
    JObj([id |-> JStr(id), type |-> JStr("function"),
          function |-> JObj([name |-> JStr(name),
                             arguments |-> JStr(arguments)])])

MessageTree(content, extra) ==
    JObj([ key \in {"role", "content"} \cup DOMAIN extra |->
             IF key = "role" THEN JStr(ROLE_AGENT)
             ELSE IF key = "content" THEN content
             ELSE extra[key] ])

ChoiceTree(n, message, reason) ==
    JObj([index |-> JNum(n), message |-> message, logprobs |-> JNull,
          finish_reason |-> JStr(reason)])

ChatTree(choices) ==
    JObj([object |-> JStr("chat.completion"), id |-> JStr("r1"),
          created |-> JNum(17), model |-> JStr("tgi"),
          system_fingerprint |-> JStr("fp"), choices |-> choices,
          usage |-> JObj([prompt_tokens |-> JNum(5),
                          completion_tokens |-> JNum(7),
                          total_tokens |-> JNum(12)])])

NoExtra == [ key \in {} |-> JNull ]
LondonCall == ToolCallTree("call_123", "get_user_weather",
                           "{\"location\": \"London\"}")
ParisCall == ToolCallTree("call_124", "get_user_time", "{\"tz\":\"CET\"}")

BodyText ==
    Body("text", FALSE, TRUE,
         ChatTree(JArr(<< ChoiceTree(0, MessageTree(JStr("Hello"), NoExtra),
                                     "stop") >>)))
BodyOneCall ==
    Body("onecall", FALSE, TRUE,
         ChatTree(JArr(<< ChoiceTree(0,
             MessageTree(JStr(""), [tool_calls |-> JArr(<<LondonCall>>)]),
             "tool_calls") >>)))
BodyTwoCalls ==
    Body("twocalls", FALSE, TRUE,
         ChatTree(JArr(<< ChoiceTree(0,
             MessageTree(JStr("Let me check"),
                         [tool_calls |-> JArr(<<ParisCall, LondonCall>>)]),
             "tool_calls"),
             ChoiceTree(1, MessageTree(JStr("Other"),
                         [tool_calls |-> JArr(<<LondonCall>>)]),
             "tool_calls") >>)))
BodyTextThenCalls ==
    Body("textthencalls", FALSE, TRUE,
         ChatTree(JArr(<< ChoiceTree(0, MessageTree(JStr("Hello"), NoExtra),
                                     "stop"),
             ChoiceTree(1, MessageTree(JStr("Other"),
                         [tool_calls |-> JArr(<<LondonCall>>)]),
             "tool_calls") >>)))
BodyEmptyCalls ==
    Body("emptycalls", FALSE, TRUE,
         ChatTree(JArr(<< ChoiceTree(0,
             MessageTree(JStr("Hi"), [tool_calls |-> JArr(<<>>)]),
             "stop") >>)))
BodyNullCalls ==
    Body("nullcalls", FALSE, TRUE,
         ChatTree(JArr(<< ChoiceTree(0,
             MessageTree(JStr("Hey"), [tool_calls |-> JNull]),
             "stop") >>)))
BodyLegacyCall ==
    Body("legacycall", FALSE, TRUE,
         ChatTree(JArr(<< ChoiceTree(0,
             MessageTree(JStr(""),
                 [function_call |->
                     JObj([name |-> JStr("get_user_weather"),
                           arguments |-> JStr("{\"location\": \"London\"}")])]),
             "function_call") >>)))
BodyNoChoices == Body("nochoices", FALSE, TRUE, ChatTree(JArr(<<>>)))
\* Nothing but the content of one choice.
BodyMissingFields ==
    Body("missingfields", FALSE, TRUE,
         JObj([choices |->
                 JArr(<< JObj([message |->
                                 JObj([content |-> JStr("Hi there")])]) >>)]))
\* BodyText with a field the Response type does not know, at the top and
\* in the message.
BodyExtraFields ==
    LET base == ChatTree(JArr(<< ChoiceTree(0,
                    MessageTree(JStr("Hello"), [refusal |-> JStr("no")]),
                    "stop") >>))
    IN  Body("extrafields", FALSE, TRUE,
             JObj([ key \in DOMAIN base.o \cup {"service_tier"} |->
                      IF key = "service_tier" THEN JStr("default")
                      ELSE base.o[key] ]))
BodyAbsentChoices ==
    Body("absentchoices", FALSE, TRUE, JObj([id |-> JStr("r1")]))
BodyContentNumber ==
    Body("contentnumber", FALSE, TRUE,
         ChatTree(JArr(<< ChoiceTree(0, MessageTree(JNum(7), NoExtra),
                                     "stop") >>)))
BodyNotJson == Body("<html>busy</html>", FALSE, FALSE, JNull)
BodyEmpty == Body("", FALSE, FALSE, JNull)
BodyReadFails == Body("cut", TRUE, FALSE, JNull)

ChatBodies ==
    { BodyText, BodyOneCall, BodyTwoCalls, BodyTextThenCalls, BodyEmptyCalls,
      BodyNullCalls, BodyLegacyCall, BodyNoChoices, BodyAbsentChoices,
      BodyMissingFields, BodyExtraFields,
      BodyContentNumber, BodyNotJson, BodyEmpty, BodyReadFails }

AnswerTree(answer, score, start, end) ==
    JObj([answer |-> JStr(answer), score |-> score, start |-> JNum(start),
          end |-> JNum(end)])

BodyAnswers ==
    Body("answers", FALSE, TRUE,
         JArr(<< AnswerTree("Paris", JFrac(95), 10, 14),
                 AnswerTree("France", JFrac(80), 20, 25),
                 AnswerTree("Paris", JFrac(95), 10, 14) >>))
BodyNoAnswers == Body("[]", FALSE, TRUE, JArr(<<>>))
BodyAnswerObject ==
    Body("answerobject", FALSE, TRUE, AnswerTree("Test", JFrac(50), 0, 3))
BodyScoreString ==
    Body("scorestring", FALSE, TRUE,
         JArr(<< AnswerTree("Paris", JFrac(95), 10, 14),
                 AnswerTree("Test", JStr("high"), 0, 3) >>))

QnABodies ==
    { BodyAnswers, BodyNoAnswers, BodyAnswerObject, BodyScoreString,
      BodyNotJson, BodyReadFails }

\* Bodies that come with a status other than 200.
ErrorBodies == { Body("model loading", FALSE, FALSE, JNull) }
\* The statuses the server answers with besides 200 and 503.
OtherStatuses == {404, 500}
TransportCauses == {"connection refused", "no such host"}

\* ---------------------------------------------------------------- state
VARIABLES
    ctor,       \* the arguments the constructor was called with
    ad,         \* the adaptor object (Adaptor or QnAAdaptor)
    pc,         \* where the call in progress stands
    call,       \* the public operation in progress and its arguments
    reqData,    \* the payload handed to sendWithRetry
    i,          \* the loop counter of sendWithRetry
    requests,   \* the HTTP requests issued by the call, in order
    responses,  \* the HTTP responses received by the call, in order
    sleeps,     \* the backoff waits the call has completed
    doerr,      \* the error client.Do returned to the call, "" for none
    sendres,    \* what sendWithRetry returned
    ret         \* what the public operation returned

vars == <<ctor, ad, pc, call, reqData, i, requests, responses, sleeps,
          doerr, sendres, ret>>

\* ---------------------------------------------------------- constructors
NewBaseAdaptor(apiurl, apikey, model, maxretries) ==
    [apiURL |-> apiurl, apiKey |-> apikey, model |-> model,
     maxretries |-> maxretries]

\* Mutant: the default extractor is installed whatever the caller gave.
NewAdaptor_AlwaysRaw(apiurl, apikey, model, baseinstructions, extractresp, maxretries) ==
    [kind |-> "chat",
     base |-> NewBaseAdaptor(apiurl, apikey, model, maxretries),
     baseinstruct |-> baseinstructions,
     extractresp |-> "RawExtracter",
     maxretries |-> maxretries]

NewAdaptor(apiurl, apikey, model, baseinstructions, extractresp, maxretries) ==
    [kind |-> "chat",
     base |-> NewBaseAdaptor(apiurl, apikey, model, maxretries),
     baseinstruct |-> baseinstructions,
     extractresp |-> IF extractresp = "nil" THEN "RawExtracter"
                     ELSE extractresp,
     maxretries |-> maxretries]

NewQnAAdaptor(apiurl, apikey, model, extractresp, maxretries) ==
    [kind |-> "qna",
     base |-> NewBaseAdaptor(apiurl, apikey, model, maxretries),
     extractor |-> IF extractresp = "nil" THEN "QnAJsonResponseExtractor"
                   ELSE extractresp]

\* Calling the extractor function value the adaptor holds.
ApplyExtractResponse(f, body) ==
    CASE f = "OpenAIJsonExtractor" -> OpenAIJsonExtractor(body)
      [] f = "OpenAIJsonExtractorWithDebug" -> OpenAIJsonExtractorWithDebug(body)
      [] f = "RawExtracter" -> RawExtracter(body)

ApplyQnAExtractor(f, body) ==
    CASE f = "QnAJsonResponseExtractor" -> QnAJsonResponseExtractor(body)
      [] f = "QnAJsonResponseExtractorWithDebug" ->
             QnAJsonResponseExtractorWithDebug(body)
      [] f = "dummyExtractor" -> dummyExtractor(body)

\* Whether the extractor function reads from the reader it is given.
ReadsBody(f) == f \notin ClientExtractors

\* ------------------------------------------------------ idle call state
NoCall == [op |-> "none"]
NoReq == [type |-> "none"]
NoSendRes == [returned |-> FALSE, resp |-> 0, err |-> NoErr]
NoRet == [returned |-> FALSE]

SendRes(resp, err) == [returned |-> TRUE, resp |-> resp, err |-> err]

\* The values a chat operation and SendQuestion return.
ChatRet(content, calls, err) ==
    [returned |-> TRUE, content |-> content, calls |-> calls, err |-> err]
QnARet(answers, err) ==
    [returned |-> TRUE, answers |-> answers, err |-> err]

Init ==
    /\ ctor \in
         [kind : {"chat"}, apiurl : {ValidURL, InvalidURL}, apikey : ApiKeys,
          model : Models, baseinstructions : BaseInstructs,
          extractresp : ChatExtractors, maxretries : -1..MaxRetriesBound]
         \cup
         [kind : {"qna"}, apiurl : {ValidURL, InvalidURL}, apikey : ApiKeys,
          model : Models, extractresp : QnAExtractors,
          maxretries : -1..MaxRetriesBound]
    /\ ad = IF ctor.kind = "chat"
            THEN NewAdaptor(ctor.apiurl, ctor.apikey, ctor.model,
                            ctor.baseinstructions, ctor.extractresp,
                            ctor.maxretries)
            ELSE NewQnAAdaptor(ctor.apiurl, ctor.apikey, ctor.model,
                               ctor.extractresp, ctor.maxretries)
    /\ pc = "idle"
    /\ call = NoCall
    /\ reqData = NoReq
    /\ i = 0
    /\ requests = <<>>
    /\ responses = <<>>
    /\ sleeps = 0
    /\ doerr = ""
    /\ sendres = NoSendRes
    /\ ret = NoRet

\* ------------------------------------------------------ chat operations
\* Mutant: the history is appended after the new message.
BuildAIRequest_HistoryLast(c, message, role, history, tools) ==
    LET messages ==
            AppendAll(<< Message(ROLE_SYSTEM, UnescapeString(c.baseinstruct),
                               NilPtr),
                       Message(role, UnescapeString(message), NilPtr) >>,
                    history)
    IN  [type |-> "AIRequest",
         v |-> [Model |-> c.base.model,
                Messages |-> Slice(messages),
                Tools |-> IF ~tools.nil THEN tools ELSE NilSlice]]

\* Mutant: the content of the history messages is unescaped too.
BuildAIRequest_UnescapesHistory(c, message, role, history, tools) ==
    LET unescaped ==
            [ k \in 1..SliceLen(history) |->
                [history.elems[k] EXCEPT !.Content = UnescapeString(@)] ]
        messages ==
            << Message(ROLE_SYSTEM, UnescapeString(c.baseinstruct), NilPtr) >>
            \o unescaped
            \o << Message(role, UnescapeString(message), NilPtr) >>
    IN  [type |-> "AIRequest",
         v |-> [Model |-> c.base.model,
                Messages |-> Slice(messages),
                Tools |-> IF ~tools.nil THEN tools ELSE NilSlice]]

\* The payload sendRequestWithHistory builds before it calls sendWithRetry.
BuildAIRequest(c, message, role, history, tools) ==
    LET messages ==
            AppendAll(<< Message(ROLE_SYSTEM, UnescapeString(c.baseinstruct),
                               NilPtr) >>, history)
            \o << Message(role, UnescapeString(message), NilPtr) >>
    IN  [type |-> "AIRequest",
         v |-> [Model |-> c.base.model,
                Messages |-> Slice(messages),
                Tools |-> IF ~tools.nil THEN tools ELSE NilSlice]]

\* sendRequestWithHistory up to its call of sendWithRetry.
sendRequestWithHistory(op, message, role, history, tools) ==
    /\ pc = "idle"
    /\ ad.kind = "chat"
    /\ call' = [op |-> op, message |-> message, role |-> role,
                history |-> history, tools |-> tools]
    /\ reqData' = BuildAIRequest(ad, message, role, history, tools)
    /\ i' = 0
    /\ pc' = "loop"
    /\ UNCHANGED <<ctor, ad, requests, responses, sleeps, doerr, sendres, ret>>

SendRequestWithHistory ==
    \E message \in MessageTexts, history \in Histories, tools \in ToolSets :
        sendRequestWithHistory("SendRequestWithHistory", message, ROLE_USER,
                               history, tools)

\* Mutant: the system variant passes the user role.
SendSystemRequestWithHistory_AsUser ==
    \E message \in MessageTexts, history \in Histories, tools \in ToolSets :
        sendRequestWithHistory("SendSystemRequestWithHistory", message,
                               ROLE_USER, history, tools)

SendSystemRequestWithHistory ==
    \E message \in MessageTexts, history \in Histories, tools \in ToolSets :
        sendRequestWithHistory("SendSystemRequestWithHistory", message,
                               ROLE_SYSTEM, history, tools)

SendRequest ==
    \E message \in MessageTexts :
        sendRequestWithHistory("SendRequest", message, ROLE_USER,
                               Slice(<<>>), NilSlice)

\* -------------------------------------------------------- QnA operation
BuildQnARequest(context, question, params) ==
    [type |-> "QnARequest",
     v |-> [Inputs |-> [Context |-> context, Question |-> question],
            Parameters |-> params]]

SendQuestion ==
    \E context \in Contexts, question \in Questions, params \in ParamMaps :
        /\ pc = "idle"
        /\ ad.kind = "qna"
        /\ call' = [op |-> "SendQuestion", context |-> context,
                    question |-> question, params |-> params]
        /\ reqData' = BuildQnARequest(context, question, params)
        /\ i' = 0
        /\ pc' = "loop"
        /\ UNCHANGED <<ctor, ad, requests, responses, sleeps, doerr, sendres, ret>>

\* -------------------------------------------------------- sendWithRetry
\* Mutant: the payload is encoded once, before the loop, and the buffer is
\* empty when a retry reads it.
HttpRequest_DrainedOnRetry(c, data) ==
    [method |-> "POST",
     url |-> c.apiURL,
     body |-> IF i = 0 THEN Encode(data) ELSE JNull,
     header |-> [ h \in {"Accept", "Content-Type", "Authorization"} |->
                    IF h = "Authorization" THEN <<"Bearer ", c.apiKey>>
                    ELSE "application/json" ]]

\* The request one loop iteration builds: POST, the encoded payload, the
\* three headers.
HttpRequest(c, data) ==
    [method |-> "POST",
     url |-> c.apiURL,
     body |-> Encode(data),
     header |-> [ h \in {"Accept", "Content-Type", "Authorization"} |->
                    IF h = "Authorization" THEN <<"Bearer ", c.apiKey>>
                    ELSE "application/json" ]]

HttpResponse(status, body, read, closes) ==
    [status |-> status, body |-> body, read |-> read, closes |-> closes]

\* Mutant: the loop bound off by one (i <= maxretries).
LoopContinues_OffByOne(n, maxretries) == n <= maxretries

\* Mutant: the loop body runs once before the budget is looked at.
LoopContinues_AtLeastOnce(n, maxretries) == n = 0 \/ n < maxretries

\* for i := 0; i < c.maxretries; i++
LoopContinues(n, maxretries) == n < maxretries

\* What the loop does with a response: sleep and go round again, read the
\* body and fail, or hand the response to the caller.
\* Mutant: every 5xx status is taken for a transient one.
Retry503_Any5xx(status) == status >= 500
\* Mutant: the success test compares with 201 Created.
NotOK_Created(status) == status # 201

Retry503(status) == status = 503
NotOK(status) == status # 200

\* The bodies a 200 answer may carry for this adaptor.
OKBodies == IF ad.kind = "chat" THEN ChatBodies ELSE QnABodies

\* http.NewRequest rejects the endpoint URL: the loop returns at once.
NewRequestFails ==
    /\ pc = "loop"
    /\ LoopContinues(i, ad.base.maxretries)
    /\ ad.base.apiURL = InvalidURL
    /\ sendres' = SendRes(0, Err("creating request", 0, "missing protocol scheme"))
    /\ pc' = "sent"
    /\ UNCHANGED <<ctor, ad, call, reqData, i, requests, responses, sleeps, doerr,
                   ret>>

\* Mutant: a transport error is treated like a 503: wait and go round again.
DoFails_Retries ==
    \E cause \in TransportCauses :
        /\ pc = "loop"
        /\ LoopContinues(i, ad.base.maxretries)
        /\ ad.base.apiURL # InvalidURL
        /\ requests' = Append(requests, HttpRequest(ad.base, reqData))
        /\ doerr' = cause
        /\ pc' = "sleep"
        /\ UNCHANGED <<ctor, ad, call, reqData, i, responses, sleeps, sendres,
                       ret>>

\* client.Do fails (no response): the loop returns at once, wrapping the
\* cause.
DoFails ==
    \E cause \in TransportCauses :
        /\ pc = "loop"
        /\ LoopContinues(i, ad.base.maxretries)
        /\ ad.base.apiURL # InvalidURL
        /\ requests' = Append(requests, HttpRequest(ad.base, reqData))
        /\ doerr' = cause
        /\ sendres' = SendRes(0, Err("sending request", 0, cause))
        /\ pc' = "sent"
        /\ UNCHANGED <<ctor, ad, call, reqData, i, responses, sleeps, ret>>

\* Mutant: after a 503 the next attempt is issued without the wait.
DoResponds_NoWait ==
    /\ pc = "loop"
    /\ LoopContinues(i, ad.base.maxretries)
    /\ ad.base.apiURL # InvalidURL
    /\ requests' = Append(requests, HttpRequest(ad.base, reqData))
    /\ \E status \in {200, 503} \cup OtherStatuses :
         \E body \in IF status = 200 THEN OKBodies ELSE ErrorBodies :
           IF Retry503(status)
           THEN /\ responses' =
                      Append(responses, HttpResponse(status, body, FALSE, 1))
                /\ pc' = "loop"
                /\ i' = i + 1
                /\ UNCHANGED sendres
           ELSE IF NotOK(status)
           THEN /\ responses' =
                      Append(responses, HttpResponse(status, body, TRUE, 1))
                /\ sendres' = SendRes(0, Err("status", status, ""))
                /\ pc' = "sent"
                /\ UNCHANGED i
           ELSE /\ responses' =
                      Append(responses, HttpResponse(status, body, FALSE, 0))
                /\ sendres' = SendRes(Len(responses) + 1, NoErr)
                /\ pc' = "sent"
                /\ UNCHANGED i
    /\ UNCHANGED <<ctor, ad, call, reqData, sleeps, doerr, ret>>

\* Mutant: no wait after the 503 that uses up the budget.
DoResponds_NoFinalWait ==
    /\ pc = "loop"
    /\ LoopContinues(i, ad.base.maxretries)
    /\ ad.base.apiURL # InvalidURL
    /\ requests' = Append(requests, HttpRequest(ad.base, reqData))
    /\ \E status \in {200, 503} \cup OtherStatuses :
         \E body \in IF status = 200 THEN OKBodies ELSE ErrorBodies :
           IF Retry503(status)
           THEN /\ responses' =
                      Append(responses, HttpResponse(status, body, FALSE, 1))
                /\ IF LoopContinues(i + 1, ad.base.maxretries)
                   THEN pc' = "sleep" /\ UNCHANGED sendres
                   ELSE /\ pc' = "sent"
                        /\ sendres' =
                             SendRes(0, Err("retries exceeded", 0, ""))
                /\ UNCHANGED i
           ELSE IF NotOK(status)
           THEN /\ responses' =
                      Append(responses, HttpResponse(status, body, TRUE, 1))
                /\ sendres' = SendRes(0, Err("status", status, ""))
                /\ pc' = "sent"
                /\ UNCHANGED i
           ELSE /\ responses' =
                      Append(responses, HttpResponse(status, body, FALSE, 0))
                /\ sendres' = SendRes(Len(responses) + 1, NoErr)
                /\ pc' = "sent"
                /\ UNCHANGED i
    /\ UNCHANGED <<ctor, ad, call, reqData, sleeps, doerr, ret>>

\* Mutant: the body of a failed request is put into the error.
DoResponds_BodyInError ==
    /\ pc = "loop"
    /\ LoopContinues(i, ad.base.maxretries)
    /\ ad.base.apiURL # InvalidURL
    /\ requests' = Append(requests, HttpRequest(ad.base, reqData))
    /\ \E status \in {200, 503} \cup OtherStatuses :
         \E body \in IF status = 200 THEN OKBodies ELSE ErrorBodies :
           IF Retry503(status)
           THEN /\ responses' =
                      Append(responses, HttpResponse(status, body, FALSE, 1))
                /\ pc' = "sleep"
                /\ UNCHANGED <<sendres, i>>
           ELSE IF NotOK(status)
           THEN /\ responses' =
                      Append(responses, HttpResponse(status, body, TRUE, 1))
                /\ sendres' = SendRes(0, Err("status", status, body.text))
                /\ pc' = "sent"
                /\ UNCHANGED i
           ELSE /\ responses' =
                      Append(responses, HttpResponse(status, body, FALSE, 0))
                /\ sendres' = SendRes(Len(responses) + 1, NoErr)
                /\ pc' = "sent"
                /\ UNCHANGED i
    /\ UNCHANGED <<ctor, ad, call, reqData, sleeps, doerr, ret>>

\* client.Do returns a response: 503 closes the body and starts the wait,
\* another status than 200 reads and closes the body and fails with the
\* status, 200 returns the response with its body open.
DoResponds ==
    /\ pc = "loop"
    /\ LoopContinues(i, ad.base.maxretries)
    /\ ad.base.apiURL # InvalidURL
    /\ requests' = Append(requests, HttpRequest(ad.base, reqData))
    /\ \E status \in {200, 503} \cup OtherStatuses :
         \E body \in IF status = 200 THEN OKBodies ELSE ErrorBodies :
           IF Retry503(status)
           THEN /\ responses' =
                      Append(responses, HttpResponse(status, body, FALSE, 1))
                /\ pc' = "sleep"
                /\ UNCHANGED sendres
           ELSE IF NotOK(status)
           THEN /\ responses' =
                      Append(responses, HttpResponse(status, body, TRUE, 1))
                /\ sendres' = SendRes(0, Err("status", status, ""))
                /\ pc' = "sent"
           ELSE /\ responses' =
                      Append(responses, HttpResponse(status, body, FALSE, 0))
                /\ sendres' = SendRes(Len(responses) + 1, NoErr)
                /\ pc' = "sent"
    /\ UNCHANGED <<ctor, ad, call, reqData, i, sleeps, doerr, ret>>

\* Mutant: a retry is paid for out of the adaptor's budget.
Backoff_SpendsBudget ==
    /\ pc = "sleep"
    /\ sleeps' = sleeps + 1
    /\ i' = i + 1
    /\ ad' = [ad EXCEPT !.base.maxretries = @ - 1]
    /\ pc' = "loop"
    /\ UNCHANGED <<ctor, call, reqData, requests, responses, doerr, sendres,
                   ret>>

\* time.Sleep(30 * time.Second) ends; continue runs i++.
Backoff ==
    /\ pc = "sleep"
    /\ sleeps' = sleeps + 1
    /\ i' = i + 1
    /\ pc' = "loop"
    /\ UNCHANGED <<ctor, ad, call, reqData, requests, responses, doerr, sendres,
                   ret>>

\* Mutant: the error is only returned once an attempt has been made.
RetriesExceeded_AfterAnAttempt ==
    /\ pc = "loop"
    /\ ~LoopContinues(i, ad.base.maxretries)
    /\ requests # <<>>
    /\ sendres' = SendRes(0, Err("retries exceeded", 0, ""))
    /\ pc' = "sent"
    /\ UNCHANGED <<ctor, ad, call, reqData, i, requests, responses, sleeps, doerr,
                   ret>>

\* The loop condition fails: return nil, "Num retries exceeded".
RetriesExceeded ==
    /\ pc = "loop"
    /\ ~LoopContinues(i, ad.base.maxretries)
    /\ sendres' = SendRes(0, Err("retries exceeded", 0, ""))
    /\ pc' = "sent"
    /\ UNCHANGED <<ctor, ad, call, reqData, i, requests, responses, sleeps, doerr,
                   ret>>

\* ------------------------------------------- after sendWithRetry returns
\* handlers.PanicOnError(err) panics when err is not nil.
PanicOnError(err) == err # NoErr

\* Mutant: SendRequest discards the error together with the calls.
ChatResult_DropsErr(op, x) ==
    IF op = "SendRequest"
    THEN [returned |-> TRUE, content |-> x.content, err |-> NoErr]
    ELSE ChatRet(x.content, x.calls, x.err)

\* What a chat operation returns from what the extractor returned:
\* SendRequest keeps the content and the error.
ChatResult(op, x) ==
    IF op = "SendRequest"
    THEN [returned |-> TRUE, content |-> x.content, err |-> x.err]
    ELSE ChatRet(x.content, x.calls, x.err)

\* sendRequestWithHistory after sendWithRetry: PanicOnError, the deferred
\* Close, the configured extractor on the body of the returned response.
ChatReturn ==
    /\ pc = "sent"
    /\ ad.kind = "chat"
    /\ IF PanicOnError(sendres.err)
       THEN /\ pc' = "panic"
            /\ UNCHANGED <<responses, ret>>
       ELSE LET n == sendres.resp
                x == ApplyExtractResponse(ad.extractresp, responses[n].body)
            IN  /\ responses' = [responses EXCEPT
                                   ![n].read = TRUE,
                                   ![n].closes = @ + x.closes + 1]
                /\ ret' = ChatResult(call.op, x)
                /\ pc' = "done"
    /\ UNCHANGED <<ctor, ad, call, reqData, i, requests, sleeps, doerr, sendres>>

\* SendQuestion after sendWithRetry: PanicOnError, then the extractor.
QnAReturn ==
    /\ pc = "sent"
    /\ ad.kind = "qna"
    /\ IF PanicOnError(sendres.err)
       THEN /\ pc' = "panic"
            /\ UNCHANGED <<responses, ret>>
       ELSE LET n == sendres.resp
                x == ApplyQnAExtractor(ad.extractor, responses[n].body)
            IN  /\ responses' = [responses EXCEPT
                                   ![n].read = ReadsBody(ad.extractor),
                                   ![n].closes = @ + x.closes]
                /\ ret' = QnARet(x.answers, x.err)
                /\ pc' = "done"
    /\ UNCHANGED <<ctor, ad, call, reqData, i, requests, sleeps, doerr, sendres>>

\* The caller has its result (or has recovered from the panic) and is free
\* to call the adaptor again.
CallOver ==
    /\ pc \in {"done", "panic"}
    /\ pc' = "idle"
    /\ call' = NoCall
    /\ reqData' = NoReq
    /\ i' = 0
    /\ requests' = <<>>
    /\ responses' = <<>>
    /\ sleeps' = 0
    /\ doerr' = ""
    /\ sendres' = NoSendRes
    /\ ret' = NoRet
    /\ UNCHANGED <<ctor, ad>>

Next ==
    \/ SendRequest
    \/ SendRequestWithHistory
    \/ SendSystemRequestWithHistory
    \/ SendQuestion
    \/ NewRequestFails
    \/ DoFails
    \/ DoResponds
    \/ Backoff
    \/ RetriesExceeded
    \/ ChatReturn
    \/ QnAReturn
    \/ CallOver

Spec == Init /\ [][Next]_vars

\* ------------------------------------------------------ building tools
\* NewTool needs no adaptor: a caller that builds tools, one at a time.
ToolInit ==
    /\ ctor = [kind |-> "none"]
    /\ ad = [kind |-> "none"]
    /\ pc = "idle"
    /\ call = NoCall
    /\ reqData = NoReq
    /\ i = 0
    /\ requests = <<>>
    /\ responses = <<>>
    /\ sleeps = 0
    /\ doerr = ""
    /\ sendres = NoSendRes
    /\ ret = NoRet

CallNewTool ==
    \E name \in ToolNames, description \in ToolDescriptions,
       params \in ParamLists :
        /\ pc = "idle"
        /\ call' = [op |-> "NewTool", name |-> name,
                    description |-> description, params |-> params]
        /\ ret' = [returned |-> TRUE,
                   tool |-> NewTool(name, description, params)]
        /\ pc' = "done"
        /\ UNCHANGED <<ctor, ad, reqData, i, requests, responses, sleeps,
                       doerr, sendres>>

ToolNext ==
    \/ CallNewTool
    \/ CallOver

ToolSpec == ToolInit /\ [][ToolNext]_vars

\* ======================================================== properties
StatusOf(n) == responses[n].status
AllAnswered503 == \A n \in 1..Len(responses) : StatusOf(n) = 503
ChatOps ==
    {"SendRequest", "SendRequestWithHistory", "SendSystemRequestWithHistory"}

\* C1: when the server answers 503 to the first k attempts and 200 to
\* attempt k+1, exactly k+1 requests have been issued and none follows,
\* sendWithRetry returns that last response with no error, and the public
\* operation returns what the configured extractor makes of that body.
C1_RetryThenSuccess ==
    \A k \in 0..MaxRetriesBound :
        ( /\ Len(responses) = k + 1
          /\ \A n \in 1..k : StatusOf(n) = 503
          /\ StatusOf(k + 1) = 200 )
        => /\ k < ad.base.maxretries
           /\ Len(requests) = k + 1
           /\ sleeps = k
           /\ pc \in {"sent", "done"}
           /\ sendres = SendRes(k + 1, NoErr)
           /\ pc = "done" =>
                /\ responses[k + 1].read
                /\ ad.kind = "chat" =>
                     LET x == ApplyExtractResponse(ad.extractresp,
                                                   responses[k + 1].body)
                     IN  ret.content = x.content /\ ret.err = x.err
                /\ ad.kind = "qna" =>
                     LET x == ApplyQnAExtractor(ad.extractor,
                                                responses[k + 1].body)
                     IN  ret = QnARet(x.answers, x.err)

\* A call answered 503, 503, 200 has returned the decoded final body.
C1_Witness ==
    /\ pc = "done"
    /\ Len(responses) = 3
    /\ StatusOf(1) = 503 /\ StatusOf(2) = 503 /\ StatusOf(3) = 200
    /\ ad.kind = "chat"
    /\ ad.extractresp = "OpenAIJsonExtractor"
    /\ responses[3].body = BodyText
    /\ ret.err = NoErr
    /\ ret.content = "Hello"

\* C2: with a usable endpoint URL and a budget maxretries >= 0, when every
\* attempt was answered with 503 the call never issues more than
\* maxretries requests, and when sendWithRetry has returned it has issued
\* exactly maxretries requests and returned no response and the
\* "retries exceeded" error.
C2_AllBusyExhausts ==
    ( /\ ad.base.apiURL # InvalidURL
      /\ ad.base.maxretries >= 0
      /\ Len(requests) = Len(responses)
      /\ AllAnswered503 )
    => /\ Len(requests) <= ad.base.maxretries
       /\ sendres.returned =>
            /\ Len(requests) = ad.base.maxretries
            /\ sendres = SendRes(0, Err("retries exceeded", 0, ""))

\* Three attempts, all answered 503, with a budget of three: exhausted.
C2_Witness ==
    /\ sendres.returned
    /\ ad.base.maxretries = 3
    /\ Len(requests) = 3
    /\ Len(responses) = 3
    /\ AllAnswered503
    /\ sendres.err.kind = "retries exceeded"

\* C3: a response whose status is neither 200 nor 503 is the last one of
\* its call: no attempt and no wait follows it, sendWithRetry has returned
\* no response and an error carrying that status, and if it is the first
\* response exactly one request was issued.
C3_OtherStatusStops ==
    \A n \in 1..Len(responses) :
        StatusOf(n) \notin {200, 503}
        => /\ n = Len(responses)
           /\ Len(requests) = n
           /\ sleeps = n - 1
           /\ pc \notin {"loop", "sleep"}
           /\ sendres = SendRes(0, Err("status", StatusOf(n), ""))

\* A 500 after one 503, with budget left: the call has stopped.
C3_Witness ==
    /\ Len(responses) = 2
    /\ StatusOf(1) = 503
    /\ StatusOf(2) = 500
    /\ ad.base.maxretries = 3
    /\ sendres.returned

\* C4: once client.Do has failed with a transport error, the request it
\* failed on is the last one, no wait follows, and sendWithRetry has
\* returned no response and an error that wraps that cause.
C4_TransportErrorStops ==
    doerr # ""
    => /\ Len(requests) = Len(responses) + 1
       /\ sleeps = Len(responses)
       /\ pc \notin {"loop", "sleep"}
       /\ sendres = SendRes(0, Err("sending request", 0, doerr))

\* A transport error on the second attempt, with budget left.
C4_Witness ==
    /\ doerr = "no such host"
    /\ Len(requests) = 2
    /\ Len(responses) = 1
    /\ ad.base.maxretries = 3
    /\ sendres.err.cause = "no such host"

\* C5: a failure of sendWithRetry or of the extractor reaches the caller
\* as an error value with empty results, and no public operation ends in
\* a panic.
C5_ErrorsAreReturned ==
    /\ pc # "panic"
    /\ (sendres.returned /\ sendres.err # NoErr /\ pc \notin {"sent", "idle"})
         => ret.returned /\ ret.err = sendres.err
    /\ (pc = "done" /\ ret.err # NoErr)
         => IF ad.kind = "chat"
            THEN ret.content = "" /\ (call.op # "SendRequest" => ret.calls = NilSlice)
            ELSE ret.answers = NilSlice

\* ------------------------------------------- the payload on the wire
WireMessages(req) == req.body.o.messages.a

WireMessageIs(w, role, content) ==
    /\ w.t = "obj"
    /\ w.o.role = JStr(role)
    /\ w.o.content = JStr(content)

WireCallIs(w, fc) ==
    /\ w.o.id = JStr(fc.Id)
    /\ w.o.type = JStr(fc.Type)
    /\ w.o.function.o.name = JStr(fc.Function.Name)
    /\ w.o.function.o.arguments = JStr(fc.Function.Arguments)
    /\ w.o.function.o.description = fc.Function.Description

WireMessageCarries(w, m) ==
    /\ WireMessageIs(w, m.Role, m.Content)
    /\ HasKey(w, "function_call") <=> ~m.FunctionCall.nil
    /\ ~m.FunctionCall.nil => WireCallIs(w.o.function_call, m.FunctionCall.v)

\* The body the extractor of a finished call was given.
DecodedBody == responses[sendres.resp].body

\* C6: every request of a chat call carries the messages
\* [system: base instruction] ++ history ++ [role: message]: len(history)+2
\* of them, the history elements with role, content and function call as
\* given and in the order given.
C6_MessageFraming ==
    call.op \in ChatOps =>
        \A n \in 1..Len(requests) :
            LET msgs == WireMessages(requests[n])
                h    == call.history.elems
            IN  /\ Len(msgs) = Len(h) + 2
                /\ WireMessageIs(msgs[1], "system",
                                 UnescapeString(ad.baseinstruct))
                /\ ~HasKey(msgs[1], "function_call")
                /\ \A k \in 1..Len(h) : WireMessageCarries(msgs[k + 1], h[k])
                /\ WireMessageIs(msgs[Len(msgs)], call.role,
                                 UnescapeString(call.message))
                /\ ~HasKey(msgs[Len(msgs)], "function_call")

\* A retried system call with two different history messages.
C6_Witness ==
    /\ call.op = "SendSystemRequestWithHistory"
    /\ Len(requests) = 2
    /\ SliceLen(call.history) = 2
    /\ call.history.elems[1] # call.history.elems[2]
    /\ Len(WireMessages(requests[2])) = 4

\* C7: a request of a chat call has a tools field exactly when the caller
\* gave a tool collection of length > 0, and the field then holds that
\* many tools; a nil and an empty collection both leave the field out.
C7_ToolsOmittedWhenEmpty ==
    call.op \in ChatOps =>
        \A n \in 1..Len(requests) :
            /\ HasKey(requests[n].body, "tools") <=> SliceLen(call.tools) > 0
            /\ HasKey(requests[n].body, "tools") =>
                 /\ requests[n].body.o.tools.t = "arr"
                 /\ Len(requests[n].body.o.tools.a) = SliceLen(call.tools)

\* A request sent for a non-nil, empty tool collection has no tools field.
C7_Witness ==
    /\ call.op = "SendRequestWithHistory"
    /\ Len(requests) >= 1
    /\ call.tools = Slice(<<>>)
    /\ ~HasKey(requests[1].body, "tools")

\* C8: the first message of a request is a system message, the last one
\* has role user for SendRequestWithHistory and system for
\* SendSystemRequestWithHistory; but for that role the request is the one
\* the user variant sends for the same arguments, and the values returned
\* are made from the extractor's result in the same way.
C8_SystemVariantDiffersInRole ==
    call.op \in {"SendRequestWithHistory", "SendSystemRequestWithHistory"} =>
        /\ \A n \in 1..Len(requests) :
             LET msgs == WireMessages(requests[n])
                 last == Len(msgs)
                 asUser == HttpRequest(ad.base,
                               BuildAIRequest(ad, call.message, ROLE_USER,
                                              call.history, call.tools))
             IN  /\ msgs[1].o.role = JStr("system")
                 /\ msgs[last].o.role =
                      JStr(IF call.op = "SendSystemRequestWithHistory"
                           THEN "system" ELSE "user")
                 /\ [requests[n] EXCEPT
                       !.body.o.messages.a[last].o.role = JStr("user")]
                    = asUser
        /\ pc = "done" =>
             LET x == ApplyExtractResponse(ad.extractresp, DecodedBody)
             IN  ret = ChatRet(x.content, x.calls, x.err)

\* A system call with history and tools whose request went out.
C8_Witness ==
    /\ call.op = "SendSystemRequestWithHistory"
    /\ Len(requests) >= 1
    /\ SliceLen(call.history) >= 1
    /\ SliceLen(call.tools) >= 1
    /\ WireMessages(requests[1])[Len(WireMessages(requests[1]))].o.role
         = JStr("system")
    /\ pc = "done"

\* C9: SendRequest sends what SendRequestWithHistory sends for an empty
\* history and no tools (two messages, system base instruction and user
\* message, no tools field) and returns the extractor's content and
\* error, without the function calls.
C9_SendRequestIsConvenience ==
    call.op = "SendRequest" =>
        /\ \A n \in 1..Len(requests) :
             LET msgs == WireMessages(requests[n])
             IN  /\ requests[n] =
                      HttpRequest(ad.base,
                          BuildAIRequest(ad, call.message, ROLE_USER,
                                         Slice(<<>>), NilSlice))
                 /\ Len(msgs) = 2
                 /\ WireMessageIs(msgs[1], "system",
                                  UnescapeString(ad.baseinstruct))
                 /\ WireMessageIs(msgs[2], "user",
                                  UnescapeString(call.message))
                 /\ ~HasKey(requests[n].body, "tools")
        /\ pc = "done" =>
             LET x == ApplyExtractResponse(ad.extractresp, DecodedBody)
             IN  ret = [returned |-> TRUE, content |-> x.content,
                        err |-> x.err]

\* SendRequest returned for a response that has no choices: the error
\* comes back, with empty content.
C9_Witness ==
    /\ call.op = "SendRequest"
    /\ pc = "done"
    /\ ad.extractresp = "OpenAIJsonExtractor"
    /\ DecodedBody = BodyNoChoices
    /\ ret.err.kind = "nochoices"
    /\ ret.content = ""

\* The modelled chat bodies that are JSON of the expected types.
WellTypedChatBodies ==
    { BodyText, BodyOneCall, BodyTwoCalls, BodyTextThenCalls, BodyEmptyCalls,
      BodyNullCalls, BodyLegacyCall, BodyNoChoices, BodyAbsentChoices,
      BodyMissingFields, BodyExtraFields }

FirstMessage(body) == body.json.v.o.choices.a[1].o.message

CarriesToolCalls(body) ==
    /\ body \in WellTypedChatBodies
    /\ HasKey(body.json.v, "choices")
    /\ Len(body.json.v.o.choices.a) >= 1
    /\ HasKey(FirstMessage(body), "tool_calls")
    /\ FirstMessage(body).o.tool_calls.t = "arr"
    /\ Len(FirstMessage(body).o.tool_calls.a) >= 1

\* C10: for a well-typed chat response whose first choice has one or more
\* tool calls, a chat call with the structured extractor returns no
\* error, the first choice's content, and as many calls as the choice
\* has, in its order, each with the id, type, name and arguments of the
\* response.
C10_ToolCallsVerbatim ==
    ( /\ pc = "done"
      /\ ad.kind = "chat"
      /\ ad.extractresp = "OpenAIJsonExtractor"
      /\ call.op # "SendRequest"
      /\ CarriesToolCalls(DecodedBody) )
    => LET m  == FirstMessage(DecodedBody)
           tc == m.o.tool_calls.a
       IN  /\ ret.err = NoErr
           /\ ret.content = m.o.content.s
           /\ ~ret.calls.nil
           /\ SliceLen(ret.calls) = Len(tc)
           /\ \A k \in 1..Len(tc) :
                /\ ret.calls.elems[k].Id = tc[k].o.id.s
                /\ ret.calls.elems[k].Type = tc[k].o.type.s
                /\ ret.calls.elems[k].Function.Name = tc[k].o.function.o.name.s
                /\ ret.calls.elems[k].Function.Arguments =
                     tc[k].o.function.o.arguments.s

\* Two tool calls next to non-empty content, and a second choice.
C10_Witness ==
    /\ pc = "done"
    /\ ad.kind = "chat"
    /\ ad.extractresp = "OpenAIJsonExtractor"
    /\ call.op = "SendRequestWithHistory"
    /\ DecodedBody = BodyTwoCalls
    /\ ret.content = "Let me check"
    /\ SliceLen(ret.calls) = 2
    /\ ret.calls.elems[1].Function.Name = "get_user_time"
    /\ ret.calls.elems[2].Function.Arguments = "{\"location\": \"London\"}"

\* A finished chat call that used the structured extractor.
StructuredDone ==
    /\ pc = "done"
    /\ ad.kind = "chat"
    /\ ad.extractresp = "OpenAIJsonExtractor"

\* The choices of a well-typed chat response (none when the field is
\* absent).
ChoicesOf(body) ==
    IF HasKey(body.json.v, "choices") /\ body.json.v.o.choices.t = "arr"
    THEN body.json.v.o.choices.a ELSE <<>>

\* The first choice's message has no tool_calls entry to speak of: the
\* field is absent, null or the empty array; nor has it the legacy field.
ToolCallsAbsent(m) == ~HasKey(m, "tool_calls") \/ m.o.tool_calls.t = "null"
ToolCallsEmpty(m) == HasKey(m, "tool_calls") /\ m.o.tool_calls = JArr(<<>>)

OneChoiceNoCalls(body) ==
    /\ body \in WellTypedChatBodies
    /\ Len(ChoicesOf(body)) = 1
    /\ ToolCallsAbsent(FirstMessage(body)) \/ ToolCallsEmpty(FirstMessage(body))
    /\ ~HasKey(FirstMessage(body), "function_call")

\* C11 (as stated): for a valid response with exactly one choice and no
\* tool calls, a chat call with the structured extractor returns the
\* choice's content, no error and a nil call collection.
C11_NoCallsGiveNil ==
    (StructuredDone /\ OneChoiceNoCalls(DecodedBody))
    => /\ ret.err = NoErr
       /\ ret.content = FirstMessage(DecodedBody).o.content.s
       /\ call.op # "SendRequest" => ret.calls = NilSlice

\* C11 (amended): for a valid response with exactly one choice and no
\* tool calls, a chat call with the structured extractor returns the
\* choice's content, no error and a call collection of length 0, which is
\* nil when the tool_calls field is absent or null and a non-nil empty
\* slice when it is the empty array.
C11_NoCallsGiveEmpty ==
    (StructuredDone /\ OneChoiceNoCalls(DecodedBody))
    => /\ ret.err = NoErr
       /\ ret.content = FirstMessage(DecodedBody).o.content.s
       /\ call.op # "SendRequest" =>
            /\ SliceLen(ret.calls) = 0
            /\ ret.calls.nil <=> ToolCallsAbsent(FirstMessage(DecodedBody))

\* A plain answer came back through SendRequestWithHistory.
C11_Witness ==
    /\ StructuredDone
    /\ call.op = "SendRequestWithHistory"
    /\ DecodedBody = BodyText
    /\ ret = ChatRet("Hello", NilSlice, NoErr)

\* A decodable response whose choices array is empty, null or absent.
NoChoices(body) ==
    /\ body \in WellTypedChatBodies
    /\ ChoicesOf(body) = <<>>

\* C12: for a decodable chat response whose choices array is empty or
\* absent, a chat call with the structured extractor returns the "no
\* choices" error, empty content and no function calls.
C12_NoChoicesIsError ==
    (StructuredDone /\ NoChoices(DecodedBody))
    => /\ ret.err = Err("nochoices", 0, "")
       /\ ret.content = ""
       /\ call.op # "SendRequest" => ret.calls = NilSlice

\* A response without a choices field was answered with the error.
C12_Witness ==
    /\ StructuredDone
    /\ call.op = "SendSystemRequestWithHistory"
    /\ DecodedBody = BodyAbsentChoices
    /\ ret.err.kind = "nochoices"
    /\ ret.content = ""

\* Two valid responses with the same first choice.
SameFirstChoice(b1, b2) ==
    /\ b1 \in WellTypedChatBodies /\ b2 \in WellTypedChatBodies
    /\ Len(ChoicesOf(b1)) >= 1 /\ Len(ChoicesOf(b2)) >= 1
    /\ ChoicesOf(b1)[1] = ChoicesOf(b2)[1]

\* C13: what a chat call with the structured extractor returns for a
\* valid response is what the extractor returns for every other valid
\* response with the same first choice, whatever the later choices are:
\* the same content, the same calls, the same error.
C13_OnlyFirstChoice ==
    StructuredDone =>
        \A other \in WellTypedChatBodies :
            SameFirstChoice(DecodedBody, other) =>
                LET x == ApplyExtractResponse(ad.extractresp, other)
                IN  /\ ret.content = x.content
                    /\ ret.err = x.err
                    /\ call.op # "SendRequest" => ret.calls = x.calls

\* A first choice without calls followed by a choice that has one: the
\* result is the one of the response that has the first choice alone.
C13_Witness ==
    /\ StructuredDone
    /\ call.op = "SendRequestWithHistory"
    /\ DecodedBody = BodyTextThenCalls
    /\ SameFirstChoice(BodyTextThenCalls, BodyText)
    /\ BodyTextThenCalls # BodyText
    /\ ret = ChatRet("Hello", NilSlice, NoErr)

\* The first choice carries a call in the legacy function_call field only.
CarriesLegacyCall(body) ==
    /\ body \in WellTypedChatBodies
    /\ Len(ChoicesOf(body)) >= 1
    /\ HasKey(FirstMessage(body), "function_call")
    /\ ~HasKey(FirstMessage(body), "tool_calls")

\* C14: a response whose first choice has a legacy function_call field
\* and no tool_calls yields no error and a one-element call collection
\* holding that call's name and arguments.
C14_LegacyCallIsOneCall ==
    ( /\ StructuredDone
      /\ call.op # "SendRequest"
      /\ CarriesLegacyCall(DecodedBody) )
    => LET fc == FirstMessage(DecodedBody).o.function_call
       IN  /\ ret.err = NoErr
           /\ SliceLen(ret.calls) = 1
           /\ ret.calls.elems[1].Function.Name = fc.o.name.s
           /\ ret.calls.elems[1].Function.Arguments = fc.o.arguments.s

\* C15: a chat call with the passthrough extractor returns the bytes of
\* the body as content, a nil call collection and no error whenever the
\* body can be read, JSON or not, empty or not; when reading fails, and
\* only then, it returns an error, with empty content.
C15_RawPassthrough ==
    (pc = "done" /\ ad.kind = "chat" /\ ad.extractresp = "RawExtracter")
    => /\ ret.err # NoErr <=> DecodedBody.ioerr
       /\ ret.content = IF DecodedBody.ioerr THEN "" ELSE DecodedBody.text
       /\ call.op # "SendRequest" => ret.calls = NilSlice

\* Bytes that are no JSON came back unchanged.
C15_Witness ==
    /\ pc = "done"
    /\ ad.kind = "chat"
    /\ ad.extractresp = "RawExtracter"
    /\ call.op = "SendRequestWithHistory"
    /\ DecodedBody = BodyNotJson
    /\ ret = ChatRet("<html>busy</html>", NilSlice, NoErr)

\* A JSON answer object with fields of the expected types.
WellTypedAnswer(v) ==
    /\ v.t = "obj"
    /\ DOMAIN v.o = {"answer", "score", "start", "end"}
    /\ v.o.answer.t = "str"
    /\ v.o.score.t \in {"num", "frac"}
    /\ v.o.start.t = "num"
    /\ v.o.end.t = "num"

AnswerArray(body) ==
    /\ ~body.ioerr
    /\ body.json.ok
    /\ body.json.v.t = "arr"
    /\ \A k \in 1..Len(body.json.v.a) : WellTypedAnswer(body.json.v.a[k])

\* The score of a JSON answer, in hundredths.
ScoreOf(v) == IF v.o.score.t = "frac" THEN v.o.score.hundredths
              ELSE 100 * v.o.score.n

\* C16: for a 200 response whose body is a JSON array of well-typed
\* answers, SendQuestion returns no error and as many answers as the
\* array has, the k-th with the fields of the k-th element; the empty
\* array gives an empty result.
C16_AnswersAsSent ==
    (pc = "done" /\ ad.kind = "qna" /\ AnswerArray(DecodedBody))
    => LET a == DecodedBody.json.v.a
       IN  /\ ret.err = NoErr
           /\ ~ret.answers.nil
           /\ SliceLen(ret.answers) = Len(a)
           /\ \A k \in 1..Len(a) :
                /\ ret.answers.elems[k].Answer = a[k].o.answer.s
                /\ ret.answers.elems[k].Score = ScoreOf(a[k])
                /\ ret.answers.elems[k].Start = a[k].o.start.n
                /\ ret.answers.elems[k].End = a[k].o.end.n

\* Three answers, the lower score in the middle and the first repeated:
\* they come back as sent.
C16_Witness ==
    /\ pc = "done"
    /\ ad.kind = "qna"
    /\ DecodedBody = BodyAnswers
    /\ SliceLen(ret.answers) = 3
    /\ ret.answers.elems[1] =
         [Answer |-> "Paris", Score |-> 95, Start |-> 10, End |-> 14]
    /\ ret.answers.elems[2].Answer = "France"
    /\ ret.answers.elems[3] = ret.answers.elems[1]

\* C17: for a body that is no JSON, a JSON value that is no array, or an
\* array with an element that has a field of the wrong type, SendQuestion
\* returns a decode error and nil answers, also when earlier elements
\* were well formed.
C17_BadAnswersGiveNil ==
    (pc = "done" /\ ad.kind = "qna" /\ ~AnswerArray(DecodedBody))
    => /\ ret.err = Err("decode", 0, "")
       /\ ret.answers = NilSlice

\* A well-formed answer followed by one with a string score: nothing is
\* returned.
C17_Witness ==
    /\ pc = "done"
    /\ ad.kind = "qna"
    /\ DecodedBody = BodyScoreString
    /\ WellTypedAnswer(BodyScoreString.json.v.a[1])
    /\ ret = QnARet(NilSlice, Err("decode", 0, ""))

\* ---------------------------------------------------------- NewTool
\* A finished NewTool call with a non-empty parameter list.
ToolBuilt ==
    /\ pc = "done"
    /\ call.op = "NewTool"
    /\ SliceLen(call.params) > 0

\* The places of the parameter list that are marked Required, and the
\* n-th of them from the left.
RequiredPlaces(p) == { k \in 1..Len(p) : p[k].Required }
NthRequiredPlace(p, n) ==
    CHOOSE k \in RequiredPlaces(p) :
        Cardinality({ j \in RequiredPlaces(p) : j < k }) = n - 1

Occurrences(s, x) == Cardinality({ k \in 1..Len(s) : s[k] = x })

\* Type "function" and a properties entry for every parameter name.
ToolShape ==
    LET p == call.params.elems
    IN  /\ ret.tool.Type = "function"
        /\ ret.tool.Function.Name = call.name
        /\ ~ret.tool.Function.Parameters.nil
        /\ DOMAIN ret.tool.Function.Parameters.v.Properties
             = { p[k].Name : k \in 1..Len(p) }

\* C18 (as stated): for a non-empty parameter list the tool has type
\* "function", a properties entry for every parameter name, and a required
\* list in which every name that is marked Required occurs exactly once,
\* in the order supplied, and no other name occurs.
C18_RequiredEachOnce ==
    ToolBuilt =>
        LET p   == call.params.elems
            req == ret.tool.Function.Parameters.v.Required.elems
            marked(n) == \E k \in 1..Len(p) : p[k].Name = n /\ p[k].Required
            first(n) == CHOOSE k \in RequiredPlaces(p) :
                            /\ p[k].Name = n
                            /\ \A j \in RequiredPlaces(p) :
                                   p[j].Name = n => k <= j
        IN  /\ ToolShape
            /\ \A k \in 1..Len(p) :
                 Occurrences(req, p[k].Name) =
                     IF marked(p[k].Name) THEN 1 ELSE 0
            /\ \A a, b \in 1..Len(req) :
                 (a < b /\ marked(req[a]) /\ marked(req[b]))
                     => first(req[a]) <= first(req[b])

\* C18 (amended): for a non-empty parameter list the tool has type
\* "function", a properties entry for every parameter name, and a required
\* list that holds one entry for each parameter marked Required, in the
\* order supplied: each such name once when the parameter names are
\* distinct, and never a name that no parameter marks required.  The
\* serialized tool carries that list as its required array, and no
\* required field when the list is empty.
C18_RequiredPerParameter ==
    ToolBuilt =>
        LET p   == call.params.elems
            ps  == ret.tool.Function.Parameters.v
            req == ps.Required.elems
            enc == EncodeTool(ret.tool).o.function.o.parameters
            distinct == \A j, k \in 1..Len(p) : p[j].Name = p[k].Name => j = k
        IN  /\ ToolShape
            /\ ~ps.Required.nil
            /\ Len(req) = Cardinality(RequiredPlaces(p))
            /\ \A n \in 1..Len(req) : req[n] = p[NthRequiredPlace(p, n)].Name
            /\ distinct =>
                 \A k \in 1..Len(p) :
                     Occurrences(req, p[k].Name) =
                         IF p[k].Required THEN 1 ELSE 0
            /\ HasKey(enc, "required") <=> Len(req) > 0
            /\ HasKey(enc, "required") =>
                 enc.o.required = JArr([ n \in 1..Len(req) |-> JStr(req[n]) ])

\* Three parameters, the optional one between the two required ones.
C18_Witness ==
    /\ ToolBuilt
    /\ SliceLen(call.params) = 3
    /\ call.params.elems[1].Name = "unit" /\ call.params.elems[1].Required
    /\ ~call.params.elems[2].Required
    /\ call.params.elems[3].Name = "location" /\ call.params.elems[3].Required
    /\ ret.tool.Function.Parameters.v.Required = Slice(<<"unit", "location">>)

\* ------------------------------------------------------- configuration
\* The extractor the constructor arguments ask for.
ExpectedExtractor ==
    IF ctor.extractresp # "nil" THEN ctor.extractresp
    ELSE IF ctor.kind = "chat" THEN "RawExtracter"
    ELSE "QnAJsonResponseExtractor"

\* C19: the adaptor holds an extractor from construction on: the one the
\* caller gave, or for a nil argument RawExtracter (NewAdaptor) and
\* QnAJsonResponseExtractor (NewQnAAdaptor); and what a call returns is
\* what that extractor makes of the response body.
C19_ExtractorAlwaysSet ==
    /\ ad.kind = "chat" =>
         /\ ad.extractresp # "nil"
         /\ ad.extractresp = ExpectedExtractor
         /\ pc = "done" =>
              ret = ChatResult(call.op,
                        ApplyExtractResponse(ExpectedExtractor, DecodedBody))
    /\ ad.kind = "qna" =>
         /\ ad.extractor # "nil"
         /\ ad.extractor = ExpectedExtractor
         /\ pc = "done" =>
              LET x == ApplyQnAExtractor(ExpectedExtractor, DecodedBody)
              IN  ret = QnARet(x.answers, x.err)

\* A chat adaptor built with a nil extractor passed the body through.
C19_Witness ==
    /\ ctor.kind = "chat"
    /\ ctor.extractresp = "nil"
    /\ pc = "done"
    /\ call.op = "SendRequestWithHistory"
    /\ DecodedBody = BodyOneCall
    /\ ret = ChatRet("onecall", NilSlice, NoErr)

\* C20: in every state, whatever calls were made and however they ended,
\* the endpoint URL, API key, model id, base instruction, retry budget and
\* extractor of the adaptor are the ones the constructor was given.
C20_ConfigurationKept ==
    /\ ad.kind = ctor.kind
    /\ ad.base.apiURL = ctor.apiurl
    /\ ad.base.apiKey = ctor.apikey
    /\ ad.base.model = ctor.model
    /\ ad.base.maxretries = ctor.maxretries
    /\ ad.kind = "chat" =>
         /\ ad.baseinstruct = ctor.baseinstructions
         /\ ad.maxretries = ctor.maxretries
         /\ ad.extractresp = ExpectedExtractor
    /\ ad.kind = "qna" => ad.extractor = ExpectedExtractor

\* A call that was retried twice and then ended with an extractor error.
C20_Witness ==
    /\ pc = "done"
    /\ sleeps = 2
    /\ ret.err # NoErr
    /\ ctor.kind = "chat"
    /\ ctor.maxretries = 3
    /\ ad.base.maxretries = 3
    /\ ad.baseinstruct = <<"a","&","g","t","b","&">>

\* ------------------------------------------ concurrent calls, one adaptor
\* Two goroutines call SendRequest on the same Adaptor. The adaptor is
\* shared; the loop counter, the requests, the responses and the results
\* are locals of each call, so the call variables hold one value per
\* goroutine.
Goroutines == {"g1", "g2"}
\* The 200 bodies and the other status the server answers these calls with.
ConcBodies == { BodyText, BodyOneCall, BodyNotJson }
ConcStatuses == {200, 503, 404}

ConcInit ==
    /\ ctor \in
         [kind : {"chat"}, apiurl : {ValidURL, InvalidURL}, apikey : ApiKeys,
          model : Models, baseinstructions : { <<"h","i">> },
          extractresp : {"OpenAIJsonExtractor"},
          maxretries : -1..MaxRetriesBound]
    /\ ad = NewAdaptor(ctor.apiurl, ctor.apikey, ctor.model,
                       ctor.baseinstructions, ctor.extractresp,
                       ctor.maxretries)
    /\ pc = [g \in Goroutines |-> "idle"]
    /\ call = [g \in Goroutines |-> NoCall]
    /\ reqData = [g \in Goroutines |-> NoReq]
    /\ i = [g \in Goroutines |-> 0]
    /\ requests = [g \in Goroutines |-> <<>>]
    /\ responses = [g \in Goroutines |-> <<>>]
    /\ sleeps = [g \in Goroutines |-> 0]
    /\ doerr = [g \in Goroutines |-> ""]
    /\ sendres = [g \in Goroutines |-> NoSendRes]
    /\ ret = [g \in Goroutines |-> NoRet]

\* A goroutine calls SendRequest and enters sendWithRetry.
ConcSendRequest ==
    \E g \in Goroutines, message \in MessageTexts :
        /\ pc[g] = "idle"
        /\ call' = [call EXCEPT ![g] =
                      [op |-> "SendRequest", message |-> message,
                       role |-> ROLE_USER, history |-> Slice(<<>>),
                       tools |-> NilSlice]]
        /\ reqData' = [reqData EXCEPT ![g] =
                         BuildAIRequest(ad, message, ROLE_USER, Slice(<<>>),
                                        NilSlice)]
        /\ i' = [i EXCEPT ![g] = 0]
        /\ pc' = [pc EXCEPT ![g] = "loop"]
        /\ UNCHANGED <<ctor, ad, requests, responses, sleeps, doerr, sendres,
                       ret>>

ConcNewRequestFails ==
    \E g \in Goroutines :
        /\ pc[g] = "loop"
        /\ LoopContinues(i[g], ad.base.maxretries)
        /\ ad.base.apiURL = InvalidURL
        /\ sendres' = [sendres EXCEPT ![g] =
                         SendRes(0, Err("creating request", 0,
                                        "missing protocol scheme"))]
        /\ pc' = [pc EXCEPT ![g] = "sent"]
        /\ UNCHANGED <<ctor, ad, call, reqData, i, requests, responses,
                       sleeps, doerr, ret>>

ConcDoFails ==
    \E g \in Goroutines, cause \in TransportCauses :
        /\ pc[g] = "loop"
        /\ LoopContinues(i[g], ad.base.maxretries)
        /\ ad.base.apiURL # InvalidURL
        /\ requests' = [requests EXCEPT ![g] =
                          Append(@, HttpRequest(ad.base, reqData[g]))]
        /\ doerr' = [doerr EXCEPT ![g] = cause]
        /\ sendres' = [sendres EXCEPT ![g] =
                         SendRes(0, Err("sending request", 0, cause))]
        /\ pc' = [pc EXCEPT ![g] = "sent"]
        /\ UNCHANGED <<ctor, ad, call, reqData, i, responses, sleeps, ret>>

\* One loop iteration of one goroutine whose exchange yields a response.
ConcDoResponds ==
    \E g \in Goroutines, status \in ConcStatuses :
      \E body \in IF status = 200 THEN ConcBodies ELSE ErrorBodies :
        /\ pc[g] = "loop"
        /\ LoopContinues(i[g], ad.base.maxretries)
        /\ ad.base.apiURL # InvalidURL
        /\ requests' = [requests EXCEPT ![g] =
                          Append(@, HttpRequest(ad.base, reqData[g]))]
        /\ IF Retry503(status)
           THEN /\ responses' = [responses EXCEPT ![g] =
                      Append(@, HttpResponse(status, body, FALSE, 1))]
                /\ pc' = [pc EXCEPT ![g] = "sleep"]
                /\ UNCHANGED sendres
           ELSE IF NotOK(status)
           THEN /\ responses' = [responses EXCEPT ![g] =
                      Append(@, HttpResponse(status, body, TRUE, 1))]
                /\ sendres' = [sendres EXCEPT ![g] =
                                 SendRes(0, Err("status", status, ""))]
                /\ pc' = [pc EXCEPT ![g] = "sent"]
           ELSE /\ responses' = [responses EXCEPT ![g] =
                      Append(@, HttpResponse(status, body, FALSE, 0))]
                /\ sendres' = [sendres EXCEPT ![g] =
                                 SendRes(Len(responses[g]) + 1, NoErr)]
                /\ pc' = [pc EXCEPT ![g] = "sent"]
        /\ UNCHANGED <<ctor, ad, call, reqData, i, sleeps, doerr, ret>>

\* Mutant: the loop counter is a field of the adaptor, counted up by the
\* 503 of any call.
ConcBackoff_SharedCounter ==
    \E g \in Goroutines :
        /\ pc[g] = "sleep"
        /\ sleeps' = [sleeps EXCEPT ![g] = @ + 1]
        /\ i' = [h \in Goroutines |-> i[h] + 1]
        /\ pc' = [pc EXCEPT ![g] = "loop"]
        /\ UNCHANGED <<ctor, ad, call, reqData, requests, responses, doerr,
                       sendres, ret>>

\* The wait of one goroutine ends; continue runs its i++.
ConcBackoff ==
    \E g \in Goroutines :
        /\ pc[g] = "sleep"
        /\ sleeps' = [sleeps EXCEPT ![g] = @ + 1]
        /\ i' = [i EXCEPT ![g] = @ + 1]
        /\ pc' = [pc EXCEPT ![g] = "loop"]
        /\ UNCHANGED <<ctor, ad, call, reqData, requests, responses, doerr,
                       sendres, ret>>

ConcRetriesExceeded ==
    \E g \in Goroutines :
        /\ pc[g] = "loop"
        /\ ~LoopContinues(i[g], ad.base.maxretries)
        /\ sendres' = [sendres EXCEPT ![g] =
                         SendRes(0, Err("retries exceeded", 0, ""))]
        /\ pc' = [pc EXCEPT ![g] = "sent"]
        /\ UNCHANGED <<ctor, ad, call, reqData, i, requests, responses,
                       sleeps, doerr, ret>>

\* sendRequestWithHistory of one goroutine after its sendWithRetry.
ConcChatReturn ==
    \E g \in Goroutines :
        /\ pc[g] = "sent"
        /\ IF PanicOnError(sendres[g].err)
           THEN /\ pc' = [pc EXCEPT ![g] = "panic"]
                /\ UNCHANGED <<responses, ret>>
           ELSE LET n == sendres[g].resp
                    x == ApplyExtractResponse(ad.extractresp,
                                              responses[g][n].body)
                IN  /\ responses' = [responses EXCEPT
                                       ![g][n].read = TRUE,
                                       ![g][n].closes = @ + x.closes + 1]
                    /\ ret' = [ret EXCEPT ![g] = ChatResult(call[g].op, x)]
                    /\ pc' = [pc EXCEPT ![g] = "done"]
        /\ UNCHANGED <<ctor, ad, call, reqData, i, requests, sleeps, doerr,
                       sendres>>

ConcNext ==
    \/ ConcSendRequest
    \/ ConcNewRequestFails
    \/ ConcDoFails
    \/ ConcDoResponds
    \/ ConcBackoff
    \/ ConcRetriesExceeded
    \/ ConcChatReturn

ConcSpec == ConcInit /\ [][ConcNext]_vars

\* ------------------------------------------------------------ progress
\* sendWithRetry on its own: entered from a chat call and from a question,
\* and followed until it returns.
RetryNext ==
    \/ SendRequest
    \/ SendQuestion
    \/ NewRequestFails
    \/ DoFails
    \/ DoResponds
    \/ Backoff
    \/ RetriesExceeded

\* sendWithRetry runs on: an HTTP exchange that was started returns (with
\* a response or an error), a backoff wait ends, and the loop test is
\* made. Nothing obliges a client to start a call.
FairSpec ==
    /\ Init
    /\ [][RetryNext]_vars
    /\ WF_vars(NewRequestFails \/ DoFails \/ DoResponds)
    /\ WF_vars(Backoff)
    /\ WF_vars(RetriesExceeded)

\* ------------------------------------------- the caller's own extractor
\* The adaptors of Init, and QnA adaptors built with an extractor the
\* caller wrote.
ClientInit ==
    /\ ctor \in
         [kind : {"chat"}, apiurl : {ValidURL, InvalidURL}, apikey : ApiKeys,
          model : Models, baseinstructions : BaseInstructs,
          extractresp : ChatExtractors, maxretries : -1..MaxRetriesBound]
         \cup
         [kind : {"qna"}, apiurl : {ValidURL, InvalidURL}, apikey : ApiKeys,
          model : Models, extractresp : QnAExtractors \cup ClientExtractors,
          maxretries : -1..MaxRetriesBound]
    /\ ad = IF ctor.kind = "chat"
            THEN NewAdaptor(ctor.apiurl, ctor.apikey, ctor.model,
                            ctor.baseinstructions, ctor.extractresp,
                            ctor.maxretries)
            ELSE NewQnAAdaptor(ctor.apiurl, ctor.apikey, ctor.model,
                               ctor.extractresp, ctor.maxretries)
    /\ pc = "idle"
    /\ call = NoCall
    /\ reqData = NoReq
    /\ i = 0
    /\ requests = <<>>
    /\ responses = <<>>
    /\ sleeps = 0
    /\ doerr = ""
    /\ sendres = NoSendRes
    /\ ret = NoRet

ClientSpec == ClientInit /\ [][Next]_vars

\* C27: when a public call has returned or panicked, every response it
\* received has had its body closed at least once, whichever extractor
\* the adaptor was built with.
C27_EveryBodyClosed ==
    pc \in {"done", "panic"} =>
        \A n \in 1..Len(responses) : responses[n].closes >= 1

\* --------------------------------------------------- the retry protocol
\* C22: every request of a call, the first and each retry, is a POST to
\* the endpoint URL the constructor was given, with the headers Accept and
\* Content-Type application/json and Authorization "Bearer " + API key,
\* and carries the encoded payload of the call, the same as the first.
C22_EveryAttemptAlike ==
    \A n \in 1..Len(requests) :
        /\ requests[n].method = "POST"
        /\ requests[n].url = ctor.apiurl
        /\ DOMAIN requests[n].header =
             {"Accept", "Content-Type", "Authorization"}
        /\ requests[n].header["Accept"] = "application/json"
        /\ requests[n].header["Content-Type"] = "application/json"
        /\ requests[n].header["Authorization"] = <<"Bearer ", ctor.apikey>>
        /\ requests[n].body = requests[1].body
        /\ requests[n].body = Encode(reqData)

\* The third attempt of a question with parameters.
C22_Witness ==
    /\ call.op = "SendQuestion"
    /\ Len(requests) = 3
    /\ StatusOf(1) = 503 /\ StatusOf(2) = 503
    /\ HasKey(requests[3].body, "parameters")
    /\ requests[3] = requests[1]

\* C23: a 503 response has its body closed, unread, by the time the wait
\* starts; during the wait no further request has been issued; and a
\* request is only ever issued after as many completed waits as requests
\* went before it.
C23_CloseWaitRetry ==
    /\ \A n \in 1..Len(responses) :
         StatusOf(n) = 503 =>
             ~responses[n].read /\ responses[n].closes = 1
    /\ pc = "sleep" =>
         /\ Len(responses) >= 1
         /\ StatusOf(Len(responses)) = 503
         /\ Len(requests) = Len(responses)
         /\ sleeps = Len(requests) - 1
    /\ pc = "loop" => sleeps = Len(requests)
    /\ Len(requests) <= sleeps + 1

\* The wait after the second 503: two requests, one completed wait.
C23_Witness ==
    /\ pc = "sleep"
    /\ Len(requests) = 2
    /\ StatusOf(2) = 503
    /\ responses[2].closes = 1
    /\ ~responses[2].read
    /\ sleeps = 1

\* What html.UnescapeString makes of the modelled texts.
EntitiesReplaced(text) ==
    CASE text = <<"h","i">> -> <<"h","i">>
      [] text = <<"x">> -> <<"x">>
      [] text = <<"a","&","g","t","b","&">> -> <<"a",">","b","&">>
      [] text = <<"&","a","m","p",";","l","t",";">> -> <<"&","l","t",";">>

\* C24: on the wire the base instruction and the new message have their
\* HTML entities replaced by the characters they denote (text without
\* entities is unchanged), and the content of every history message is
\* the content the caller supplied, entities and all.
C24_UnescapedButHistory ==
    call.op \in ChatOps =>
        \A n \in 1..Len(requests) :
            LET msgs == WireMessages(requests[n])
                h    == call.history.elems
            IN  /\ msgs[1].o.content = JStr(EntitiesReplaced(ctor.baseinstructions))
                /\ msgs[Len(msgs)].o.content = JStr(EntitiesReplaced(call.message))
                /\ \A k \in 1..Len(h) :
                     msgs[k + 1].o.content = JStr(h[k].Content)

\* Escaped instruction and message, and an escaped history message.
C24_Witness ==
    /\ call.op = "SendRequestWithHistory"
    /\ Len(requests) >= 1
    /\ ctor.baseinstructions = <<"a","&","g","t","b","&">>
    /\ call.message = <<"&","a","m","p",";","l","t",";">>
    /\ SliceLen(call.history) >= 1
    /\ WireMessages(requests[1])[1].o.content = JStr(<<"a",">","b","&">>)
    /\ WireMessages(requests[1])[2].o.content = JStr(<<"&","l","t",";">>)
    /\ WireMessages(requests[1])[Len(WireMessages(requests[1]))].o.content
         = JStr(<<"&","l","t",";">>)

\* C25 (as stated): the body of a response whose status is neither 200
\* nor 503 is read, and sendWithRetry fails with an error that carries the
\* status code and the content of that body.
C25_BodyInError ==
    \A n \in 1..Len(responses) :
        StatusOf(n) \notin {200, 503}
        => /\ responses[n].read
           /\ sendres.err.code = StatusOf(n)
           /\ sendres.err.cause = responses[n].body.text

\* C25 (amended): the body of a response whose status is neither 200 nor
\* 503 is read and closed, and sendWithRetry fails with an error that
\* carries the status code and nothing of the body.
C25_StatusInError ==
    \A n \in 1..Len(responses) :
        StatusOf(n) \notin {200, 503}
        => /\ responses[n].read
           /\ responses[n].closes = 1
           /\ sendres.returned
           /\ sendres.resp = 0
           /\ sendres.err.kind = "status"
           /\ sendres.err.code = StatusOf(n)
           /\ sendres.err.cause = ""
           /\ sendres.err.cause # responses[n].body.text

\* A 404 with a body: read, and the error names 404 alone.
C25_Witness ==
    /\ Len(responses) = 1
    /\ StatusOf(1) = 404
    /\ responses[1].body.text = "model loading"
    /\ responses[1].read
    /\ sendres.err = Err("status", 404, "")

\* The keys of a JSON object that a struct type does not know, and the
\* keys of the type that the object lacks.
UnknownKeys(T, v) == DOMAIN v.o \ DOMAIN T.f
MissingKeys(T, v) == DOMAIN T.f \ DOMAIN v.o

\* A chat body the decoder meets a wrongly typed field in, or no JSON.
Undecodable(body) == body \in ChatBodies \ WellTypedChatBodies

Max(a, b) == IF a >= b THEN a ELSE b

OwnBusyAnswers(g) ==
    { n \in 1..Len(responses[g]) : responses[g][n].status = 503 }
OwnOutcome(g) ==
    LET rs   == responses[g]
        last == rs[Len(rs)]
    IN  IF doerr[g] # "" THEN SendRes(0, Err("sending request", 0, doerr[g]))
        ELSE IF rs # <<>> /\ last.status = 200 THEN SendRes(Len(rs), NoErr)
        ELSE IF rs # <<>> /\ last.status # 503
            THEN SendRes(0, Err("status", last.status, ""))
        ELSE IF ad.base.apiURL = InvalidURL /\ ad.base.maxretries > 0
            THEN SendRes(0, Err("creating request", 0,
                                "missing protocol scheme"))
        ELSE SendRes(0, Err("retries exceeded", 0, ""))

\* C21: under every interleaving of two calls on one adaptor, each call
\* makes at most max(maxretries, 0) attempts, its loop counter counts its
\* own 503 responses and no others (so it may attempt again as long as its
\* own 503s are fewer than maxretries), each request has a response or a
\* transport error of its own, what sendWithRetry and the call return
\* follows from the call's own exchanges, and the adaptor stays as built.
C21_CallsIndependent ==
    /\ ad = NewAdaptor(ctor.apiurl, ctor.apikey, ctor.model,
                       ctor.baseinstructions, ctor.extractresp,
                       ctor.maxretries)
    /\ \A g \in Goroutines :
         /\ Len(requests[g]) <= Max(ad.base.maxretries, 0)
         /\ i[g] = Cardinality(OwnBusyAnswers(g))
                     - (IF pc[g] = "sleep" THEN 1 ELSE 0)
         /\ (pc[g] = "loop"
               /\ Cardinality(OwnBusyAnswers(g)) < ad.base.maxretries)
              => LoopContinues(i[g], ad.base.maxretries)
         /\ Len(requests[g]) =
              Len(responses[g]) + (IF doerr[g] # "" THEN 1 ELSE 0)
         /\ \A n \in 1..Len(requests[g]) :
              requests[g][n].body = Encode(reqData[g])
         /\ sendres[g].returned => sendres[g] = OwnOutcome(g)
         /\ ~sendres[g].returned => pc[g] \in {"idle", "loop", "sleep"}
         /\ pc[g] = "panic" => OwnOutcome(g).err # NoErr
         /\ pc[g] = "done" =>
              ret[g] = ChatResult(call[g].op,
                         OpenAIJsonExtractor(
                           responses[g][Len(responses[g])].body))

\* One call used up a budget of two on 503s while the other, after one 503
\* of its own, got its answer on its second attempt.
C21_Witness ==
    /\ ad.base.maxretries = 2
    /\ pc["g1"] = "panic"
    /\ sendres["g1"].err.kind = "retries exceeded"
    /\ Cardinality(OwnBusyAnswers("g1")) = 2
    /\ pc["g2"] = "done"
    /\ Len(requests["g2"]) = 2
    /\ responses["g2"][1].status = 503
    /\ ret["g2"].content = "Hello"
    /\ ret["g2"].err = NoErr
    /\ call["g1"].message # call["g2"].message

\* The 503 responses the call has received.
BusyAnswers == { n \in 1..Len(responses) : StatusOf(n) = 503 }

\* C29: the completed waits are as many as the 503 responses received
\* (one fewer while the wait after the last of them is under way); so
\* when "retries exceeded" is returned after a 503 on the last permitted
\* attempt, a wait has been completed for that 503 too.
C29_WaitsEqualBusyAnswers ==
    /\ sleeps = IF pc = "sleep" THEN Cardinality(BusyAnswers) - 1
                ELSE Cardinality(BusyAnswers)
    /\ (sendres.err.kind = "retries exceeded" /\ Len(responses) >= 1)
         => /\ StatusOf(Len(responses)) = 503
            /\ Len(requests) = ad.base.maxretries
            /\ sleeps = ad.base.maxretries

\* Budget two, two 503s: the error came after the second wait.
C29_Witness ==
    /\ sendres.err.kind = "retries exceeded"
    /\ ad.base.maxretries = 2
    /\ Len(requests) = 2
    /\ AllAnswered503
    /\ sleeps = 2

\* C30: with maxretries <= 0 no request is issued, no wait happens and
\* what sendWithRetry returns is the "retries exceeded" error; with
\* maxretries = 1 at most one request is issued, and a 503 answer to it
\* is followed by the error, not by a second request.
C30_NoBudgetNoRequest ==
    /\ ad.base.maxretries <= 0 =>
         /\ requests = <<>>
         /\ responses = <<>>
         /\ sleeps = 0
         /\ pc \notin {"sleep", "done"}
         /\ sendres.returned =>
              sendres = SendRes(0, Err("retries exceeded", 0, ""))
    /\ ad.base.maxretries = 1 =>
         /\ Len(requests) <= 1
         /\ (sendres.returned /\ Len(responses) = 1 /\ StatusOf(1) = 503)
              => sendres = SendRes(0, Err("retries exceeded", 0, ""))

\* A budget of zero: the call failed without a request.
C30_Witness ==
    /\ ctor.maxretries = 0
    /\ call.op = "SendRequest"
    /\ sendres = SendRes(0, Err("retries exceeded", 0, ""))
    /\ requests = <<>>

====
